---- MODULE Spec2Model ----
(***************************************************************************)
(* The comment ingestion pipeline of the YouTube analyzer extension: the   *)
(* background script's fetchWithRetry, fetchReplies, fetchAllComments,     *)
(* sendAllComments and its fetchComments message listener (background.js), *)
(* with the older copy of fetchWithRetry that popup.js carries.            *)
(***************************************************************************)
EXTENDS Integers, Sequences, FiniteSets, TLC

(***************************************************************************)
(* Bounds of the model.                                                    *)
(***************************************************************************)
\* items in one commentThreads page
MaxItems == 2
\* replies in one comments page
MaxReplies == 1
\* items and replies the remote source serves for one video
MaxRecords == 3
\* page requests recorded per walk
MaxLog == 4
\* failing attempts the remote source produces during one run
MaxFailures == 3
\* largest retries argument drawn for a stand-alone fetchWithRetry call
MaxRetries == 3

(***************************************************************************)
(* Program constants.                                                      *)
(***************************************************************************)
\* fetchWithRetry(url, retries = 3, delay = 1000)
DefaultRetries == 3
DefaultDelay == 1000

Impls == {"background", "popup"}
Tokens == {"a", "b"}
Cursors == Tokens \cup {""}
VideoIds == {"X"}

(***************************************************************************)
(* JSON values, reduced to the fields the code reads: error.message,       *)
(* items and nextPageToken.  An outer item is described by the parts of    *)
(* its structure the code dereferences.                                    *)
(***************************************************************************)
Item(isNull, hasSnippet, hasTop, replyCount, id) ==
    [isNull |-> isNull, hasSnippet |-> hasSnippet, hasTop |-> hasTop,
     replyCount |-> replyCount, id |-> id]

NullItem == Item(TRUE, FALSE, FALSE, 0, 0)
NoTopItem == Item(FALSE, TRUE, FALSE, 1, 0)
PlainItem(id) == Item(FALSE, TRUE, TRUE, 0, id)
ParentItem(id) == Item(FALSE, TRUE, TRUE, 1, id)
ReplyItem(id) == Item(FALSE, TRUE, FALSE, 0, id)

Json(msg, items, next) == [errorMessage |-> msg, items |-> items, nextPageToken |-> next]
EmptyObject == Json("", <<>>, "")
ApiErrorJson == Json("quotaExceeded", <<>>, "")

JsonBody(v) == [kind |-> "json", json |-> v]
TextBody == [kind |-> "text", json |-> EmptyObject]
EmptyBody == [kind |-> "empty", json |-> EmptyObject]
UnreadableBody == [kind |-> "unreadable", json |-> EmptyObject]

Response(status, body) == [net |-> TRUE, status |-> status, body |-> body]
NetworkError == [net |-> FALSE, status |-> 0, body |-> EmptyBody]

\* resp.ok
Ok(resp) == resp.net /\ resp.status \in 200..299

(***************************************************************************)
(* fetchWithRetry                                                          *)
(***************************************************************************)
\* const text = await resp.text().catch(() => "")   (popup.js: await resp.text())
BodyText(impl, resp) ==
    IF resp.body.kind = "unreadable"
    THEN IF impl = "background" THEN [thrown |-> FALSE, body |-> EmptyBody]
                                ELSE [thrown |-> TRUE, body |-> EmptyBody]
    ELSE [thrown |-> FALSE, body |-> resp.body]

\* JSON.parse(text || "{}")   (popup.js: JSON.parse(text))
JSONParse(impl, body) ==
    CASE body.kind = "json" -> [ok |-> TRUE, value |-> body.json]
      [] body.kind = "empty" ->
            IF impl = "background" THEN [ok |-> TRUE, value |-> EmptyObject]
                                   ELSE [ok |-> FALSE, value |-> EmptyObject]
      [] OTHER -> [ok |-> FALSE, value |-> EmptyObject]

\* const snippet = (text || "").slice(0, 300);  `${snippet || resp.statusText}`
Snippet(impl, body) ==
    CASE body.kind = "json" ->
            IF body.json.errorMessage # "" THEN "snippet:error-json" ELSE "snippet:json"
      [] body.kind = "text" -> "snippet:text"
      [] OTHER -> IF impl = "background" THEN "statusText" ELSE ""

Reason(type, status, message) == [type |-> type, status |-> status, message |-> message]
NoReason == Reason("none", 0, "")

\* catch (jsonErr) { throw new Error(`HTTP ${resp.status}: ${snippet || resp.statusText}`) }
CatchJsonErr(impl, resp, body, thrown) == Reason("HTTP", resp.status, Snippet(impl, body))

\* The block guarded by if (!resp.ok): the inner try parses the body and throws
\* the API error when it has a message; its catch replaces whatever was thrown.
NonOkBlock(impl, resp, body) ==
    LET parsed == JSONParse(impl, body)
        thrownInTry ==
            IF ~parsed.ok THEN Reason("SyntaxError", 0, "")
            ELSE IF parsed.value.errorMessage # ""
                 THEN Reason("YouTubeAPI", 0, parsed.value.errorMessage)
                 ELSE NoReason
    IN IF thrownInTry # NoReason
       THEN [thrown |-> TRUE, reason |-> CatchJsonErr(impl, resp, body, thrownInTry)]
       ELSE [thrown |-> FALSE, reason |-> NoReason]

\* try { const json = JSON.parse(text || "{}"); return json } catch { throw ... }
ParseBlock(impl, body) ==
    LET parsed == JSONParse(impl, body)
    IN IF parsed.ok
       THEN [thrown |-> FALSE, value |-> parsed.value, reason |-> NoReason]
       ELSE [thrown |-> TRUE, value |-> EmptyObject,
             reason |-> IF impl = "background"
                        THEN Reason("Error", 0, "Failed to parse JSON response")
                        ELSE Reason("SyntaxError", 0, "")]

\* One pass of the body of the for loop's try block, for the response the
\* source gave to this attempt.
AttemptOutcome(impl, resp) ==
    IF ~resp.net
    THEN [thrown |-> TRUE, value |-> EmptyObject, reason |-> Reason("TypeError", 0, "Failed to fetch")]
    ELSE LET text == BodyText(impl, resp)
         IN IF text.thrown
            THEN [thrown |-> TRUE, value |-> EmptyObject, reason |-> Reason("TypeError", 0, "body")]
            ELSE IF ~Ok(resp) /\ NonOkBlock(impl, resp, text.body).thrown
                 THEN [thrown |-> TRUE, value |-> EmptyObject,
                       reason |-> NonOkBlock(impl, resp, text.body).reason]
                 ELSE ParseBlock(impl, text.body)

\* setTimeout(r, delay * (1 + i))   (popup.js: setTimeout(r, delay))
BackoffDelay(impl, delay, i) ==
    IF impl = "background" THEN delay * (1 + i) ELSE delay

\* if (i < retries - 1) retry, else give up
RetryAgain(i, retries) == i < retries - 1

\* throw new Error(`Failed fetching URL after ${retries} attempts: ${err.message}`)
\* (popup.js: `Failed fetching URL after ${retries} attempts`)
ExhaustedError(impl, retries, reason) ==
    [type |-> "FetchExhausted", retries |-> retries,
     reason |-> IF impl = "background" THEN reason ELSE NoReason]

\* The parts of the request URL that vary: the endpoint, videoId or parentId, pageToken.
Url(endpoint, videoId, parentId, pageToken) ==
    [endpoint |-> endpoint, videoId |-> videoId, parentId |-> parentId, pageToken |-> pageToken]
NoUrl == Url("", "", 0, "")

\* The frame of a fetchWithRetry call at its first await fetch(url).
FetchCall(url, retries, delay) ==
    [status |-> "fetching", url |-> url, retries |-> retries, delay |-> delay, i |-> 0,
     attempts |-> <<>>, delays |-> <<>>, value |-> EmptyObject,
     error |-> ExhaustedError("popup", 0, NoReason), lastReason |-> NoReason]

IdleFetch == [FetchCall(NoUrl, 0, 0) EXCEPT !.status = "idle"]

\* The frame after the response to the pending attempt has been handled.
FetchStep(impl, f, resp) ==
    LET out == AttemptOutcome(impl, resp)
        seen == [f EXCEPT !.attempts = Append(@, resp)]
    IN IF ~out.thrown
       THEN [seen EXCEPT !.status = "returned", !.value = out.value]
       ELSE IF RetryAgain(f.i, f.retries)
            THEN [seen EXCEPT !.status = "backoff", !.lastReason = out.reason]
            ELSE [seen EXCEPT !.status = "threw", !.lastReason = out.reason,
                              !.error = ExhaustedError(impl, f.retries, out.reason)]

\* The frame after the backoff timer has fired: the next attempt is pending.
FetchResume(impl, f) ==
    [f EXCEPT !.status = "fetching", !.i = @ + 1,
              !.delays = Append(@, BackoffDelay(impl, f.delay, f.i))]

(***************************************************************************)
(* State.                                                                  *)
(***************************************************************************)
VARIABLES
    impl,           \* which copy of the code runs: background.js or the copy in popup.js
    pc,             \* the await at which the fetchComments run is suspended
    total,          \* number of items and replies the source holds for the video
    script,         \* stand-alone call: the source's response to each attempt
    fw,             \* frame of the fetchWithRetry call in progress
    fac,            \* frame of fetchAllComments
    fr,             \* frame of fetchReplies
    responses,      \* calls of sendResponse, in order
    progress,       \* progressUpdate messages sent by the background, in order
    updates,        \* updateUI messages sent by the background, in order
    storage,        \* chrome.storage.local: analysisResults, lastFetchedAt
    reqLog,         \* cursors of the commentThreads pages requested so far
    nextLog,        \* nextPageToken of the commentThreads responses received so far
    rReqLog,        \* cursors of the last two comments pages requested for the current parent
    served,         \* commentThreads pages the source has delivered, in order
    repliesOf,      \* replies the source has delivered, per parent id
    failedParents,  \* parents whose reply walk ended in its catch block
    nextId,         \* next record id the source hands out
    failures,       \* failing attempts the source has produced in this run
    popup,          \* the popup page: its globals, pending callbacks and display
    runs,           \* overlapping fetchComments runs: the frame of each listener call
    content,        \* the content script: its globals, pending calls and messages sent
    engine          \* the popup's aggregation functions: the record set and their outputs

vars == <<impl, pc, total, script, fw, fac, fr, responses, progress, updates, storage,
          reqLog, nextLog, rReqLog, served, repliesOf, failedParents, nextId, failures,
          popup, runs, content, engine>>

runVars == <<pc, total, fac, fr, responses, progress, updates, storage,
             reqLog, nextLog, rReqLog, served, repliesOf, failedParents, nextId, failures,
             popup, runs, content, engine>>

\* How a storageGet promise has settled: not yet, resolved with a value ("" is
\* null), or rejected; lastError tells whether chrome reported an error.
Settled(lastError, state, value) == [lastError |-> lastError, state |-> state, value |-> value]
NotRead == Settled(FALSE, "pending", "")

IdleFac == [videoId |-> "", apiKey |-> "", comments |-> <<>>, pageToken |-> "",
            items |-> <<>>, idx |-> 0, next |-> "", data |-> <<>>, read |-> NotRead]
IdleFr == [parentId |-> 0, replies |-> <<>>, pageToken |-> ""]
\* chrome.storage.local: whether ytApiKey is set and to what, and the saved analysis
Storage(hasKey, key) ==
    [hasKey |-> hasKey, ytApiKey |-> key, analysisResults |-> <<>>, saved |-> FALSE]
EmptyStorage == Storage(FALSE, "")

\* What #detailed-breakdown-container holds: nothing, or the breakdown card of
\* a sentiment with its record counts, its two percentages in tenths
\* ("75.0" is 750) and the records listed on hovering over either bar.
Breakdown(shown, sentiment, filtered, strongPercent, weakPercent, strongTop5, weakTop5) ==
    [shown |-> shown, sentiment |-> sentiment, filtered |-> filtered,
     strongPercent |-> strongPercent, weakPercent |-> weakPercent,
     strongTop5 |-> strongTop5, weakTop5 |-> weakTop5]
NoBreakdown == Breakdown(FALSE, "", 0, 0, 0, <<>>, <<>>)

\* popup.js globals (let commentsData = []; let selectedSentiment = null), the
\* updateUI messages whose chrome.storage.local.get has not called back yet, the
\* message handled last, and what the page shows: nothing yet, or the dashboard
\* with the aggregates it was rendered from.
IdlePopup ==
    [commentsData |-> <<>>, selectedSentiment |-> "", pending |-> <<>>, handled |-> "",
     received |-> 0, display |-> "initial", counts |-> <<>>, timeline |-> <<>>,
     breakdown |-> NoBreakdown]

\* No listener call is in progress.
IdleRuns == <<>>

\* content.js before it has looked at the page: let lastVideoId = null, the
\* page's URL and the one seen last, the notifyBackground calls suspended at
\* an await, the messages sent so far, the URL changes so far, whether
\* a call was resumed while an earlier one still waited at its first await,
\* and the fetchComments trigger answered last with its answer.
IdleContent ==
    [lastVideoId |-> "", lastUrl |-> "", url |-> "", calls |-> <<>>, sent |-> <<>>,
     changes |-> 0, overtaken |-> FALSE, answered |-> [videoId |-> "", fetchResp |-> ""]]

\* The aggregation functions have not run: no records, no outputs.
IdleEngine == [commentsData |-> <<>>, out |-> <<>>]

\* The service worker is idle: no walk, no message, nothing logged.
BackgroundIdle ==
    /\ fac = IdleFac
    /\ fr = IdleFr
    /\ responses = <<>>
    /\ progress = <<>>
    /\ updates = <<>>
    /\ reqLog = <<>>
    /\ nextLog = <<>>
    /\ rReqLog = <<>>
    /\ served = <<>>
    /\ repliesOf = [p \in 1..MaxRecords |-> <<>>]
    /\ failedParents = {}
    /\ nextId = 1
    /\ failures = 0

RunIdle ==
    /\ total \in 0..MaxRecords
    /\ popup = IdlePopup
    /\ runs = IdleRuns
    /\ content = IdleContent
    /\ engine = IdleEngine
    /\ BackgroundIdle

(***************************************************************************)
(* A stand-alone fetchWithRetry call against a source whose response to    *)
(* each attempt is fixed beforehand.                                       *)
(***************************************************************************)
Statuses == {200, 403}
Payload == Json("", <<PlainItem(1)>>, "a")
UnitBodies == {JsonBody(Payload), JsonBody(EmptyObject), JsonBody(ApiErrorJson),
               TextBody, EmptyBody, UnreadableBody}
UnitResponses == {NetworkError} \cup {Response(s, b) : s \in Statuses, b \in UnitBodies}
Delays == {DefaultDelay}

FetchInit ==
    /\ impl \in Impls
    /\ pc = "unit"
    /\ \E n \in 1..MaxRetries, d \in Delays :
          /\ script \in [1..n -> UnitResponses]
          /\ fw = FetchCall(Url("commentThreads", "X", 0, ""), n, d)
    /\ storage = EmptyStorage
    /\ RunIdle

\* await fetch(url) and await resp.text() complete; the loop body runs to the
\* next await, to the return or to the final throw.
UnitAttempt ==
    /\ pc = "unit"
    /\ fw.status = "fetching"
    /\ fw' = FetchStep(impl, fw, script[fw.i + 1])
    /\ UNCHANGED <<impl, script, runVars>>

\* The backoff timer fires and the next attempt is issued.
Backoff ==
    /\ fw.status = "backoff"
    /\ fw' = FetchResume(impl, fw)
    /\ UNCHANGED <<impl, script, runVars>>

FetchNext == UnitAttempt \/ Backoff

FetchSpec == FetchInit /\ [][FetchNext]_vars

(***************************************************************************)
(* The remote source during a run.  It holds total items and replies and   *)
(* numbers them in the order it serves them; a page is empty only when     *)
(* none is left.  It produces at most MaxFailures failing attempts.        *)
(***************************************************************************)
Shapes == {"plain", "parent", "null", "noTop"}

ShapedItem(shape, id) ==
    CASE shape = "plain" -> PlainItem(id)
      [] shape = "parent" -> ParentItem(id)
      [] shape = "null" -> [NullItem EXCEPT !.id = id]
      [] OTHER -> [NoTopItem EXCEPT !.id = id]

Min(a, b) == IF a < b THEN a ELSE b

\* Sizes of the page the source may serve next, at most max entries.
PageSizes(max) ==
    LET left == total - (nextId - 1)
    IN IF left = 0 THEN {0} ELSE 1..Min(max, left)

\* The commentThreads pages the source may serve next.
OuterPages ==
    {Json("", [k \in 1..Len(sh) |-> ShapedItem(sh[k], nextId + k - 1)], t) :
        sh \in UNION {[1..n -> Shapes] : n \in PageSizes(MaxItems)}, t \in Cursors}

\* The comments (reply) pages the source may serve next.
ReplyPages ==
    {Json("", [k \in 1..n |-> ReplyItem(nextId + k - 1)], t) :
        n \in PageSizes(MaxReplies), t \in Cursors}

\* Attempts that do not deliver a page: no response, a structured API error,
\* and a non-success status with an empty body.
BadResponses ==
    {NetworkError, Response(403, JsonBody(ApiErrorJson)), Response(403, EmptyBody)}

\* The source fails in one streak: on consecutive attempts of one call.
MayFail == failures < MaxFailures /\ (failures = 0 \/ fw.i > 0)

Logged(log, cursor) == IF Len(log) < MaxLog THEN Append(log, cursor) ELSE log
LastTwo(log, cursor) == IF log = <<>> THEN <<cursor>> ELSE <<log[Len(log)], cursor>>

(***************************************************************************)
(* fetchReplies and fetchAllComments                                       *)
(***************************************************************************)
\* const snippet = item?.snippet?.topLevelComment?.snippet; if (snippet) ...
HasTopSnippet(item) == ~item.isNull /\ item.hasSnippet /\ item.hasTop

\* The for...of loop over data.items from item k on, up to its next await
\* (fetchReplies), the end of the page, or a TypeError thrown by item.snippet
\* on a null item or by item.snippet.topLevelComment.id without topLevelComment.
RECURSIVE ProcessItems(_, _, _)
ProcessItems(items, k, comments) ==
    IF k > Len(items)
    THEN [status |-> "pageEnd", comments |-> comments, idx |-> k, parent |-> 0]
    ELSE LET item == items[k]
             pushed == IF HasTopSnippet(item) THEN Append(comments, item.id) ELSE comments
         IN IF item.isNull
            THEN [status |-> "threw", comments |-> pushed, idx |-> k, parent |-> 0]
            ELSE IF item.hasSnippet /\ item.replyCount > 0
                 THEN IF ~item.hasTop
                      THEN [status |-> "threw", comments |-> pushed, idx |-> k, parent |-> 0]
                      ELSE [status |-> "replies", comments |-> pushed, idx |-> k,
                            parent |-> item.id]
                 ELSE ProcessItems(items, k + 1, pushed)

\* (data.items || []).forEach(item => { if (!item.snippet) return; replies.push(...) })
PushReplies(replies, items) ==
    replies \o [k \in 1..Len(items) |-> items[k].id]

\* A catch block that hands back no replies at all.
RepliesDiscarded(replies) == <<>>

\* catch (err) { logError(...) } return replies;   the replies pushed before the
\* failing page stay in the array that is returned
RepliesAfterCatch(replies) == replies

\* A loop that takes up the parent again while its replies come in.
ResumeAtParent(idx) == idx

\* A loop that loses the item after a parent.
ResumeSkippingNext(idx) == idx + 2

\* the for...of loop goes on with the item after the parent
ResumeAfterReplies(idx) == idx + 1

\* A push that puts the replies in front of what was collected.
PushAllInFront(comments, replies) == replies \o comments

\* comments.push(...replies)
PushAll(comments, replies) == comments \o replies

\* throw new Error(`Failed to fetch comments for video ${videoId}: ${err.message}`)
Cause(type, retries, reason) == [type |-> type, retries |-> retries, reason |-> reason]
NoCause == Cause("", 0, NoReason)
TypeErrorCause == Cause("TypeError", 0, NoReason)
Err(message, videoId, cause) == [message |-> message, videoId |-> videoId, cause |-> cause]
NoErr == Err("", "", NoCause)
WalkErrorWithoutCause(videoId, cause) == Err("Failed to fetch comments for video", videoId, NoCause)
WalkError(videoId, cause) == Err("Failed to fetch comments for video", videoId, cause)

\* sendResponse({ error }) and sendResponse({ success: true, totalComments })
ErrorResponse(err) == [success |-> FALSE, totalComments |-> 0, error |-> err]
SuccessCountingNothing(n) == [success |-> TRUE, totalComments |-> 0, error |-> NoErr]
SuccessResponse(n) == [success |-> TRUE, totalComments |-> n, error |-> NoErr]

\* A progress message that counts the pages instead of the records.
ProgressCountingPages(n) == [action |-> "progressUpdate", processedComments |-> 1,
                             analysisResults |-> <<>>, error |-> ""]

\* chrome.runtime.sendMessage({ action: "progressUpdate", processedComments })
Progress(n) == [action |-> "progressUpdate", processedComments |-> n,
                analysisResults |-> <<>>, error |-> ""]
\* chrome.runtime.sendMessage({ action: "updateUI", analysisResults })
UpdateResults(data) == [action |-> "updateUI", processedComments |-> 0,
                        analysisResults |-> data, error |-> ""]
\* chrome.runtime.sendMessage({ action: "updateUI", error })
UpdateError(msg) == [action |-> "updateUI", processedComments |-> 0,
                     analysisResults |-> <<>>, error |-> msg]

\* A request for the first video whatever the run's video is.
UrlOfFirstVideo(videoId, pageToken) == Url("commentThreads", "X", 0, pageToken)

OuterUrl(videoId, pageToken) == Url("commentThreads", videoId, 0, pageToken)
ReplyUrl(parentId, pageToken) == Url("comments", "", parentId, pageToken)

\* fetchAllComments from item k of the current page on, with the comments
\* collected so far: to the await in fetchReplies, to the await of the 200 ms
\* pause after the progress message, or to the listener's catch.
ContinuePage(items, k, comments, next) ==
    LET r == ProcessItems(items, k, comments)
    IN /\ fac' = [fac EXCEPT !.comments = r.comments, !.items = items, !.idx = r.idx,
                             !.next = next,
                             !.pageToken = IF r.status = "pageEnd" THEN next ELSE @]
       /\ pc' = CASE r.status = "replies" -> "replyFetch"
                  [] r.status = "pageEnd" -> "throttle"
                  [] OTHER -> "done"
       /\ fw' = IF r.status = "replies"
                THEN FetchCall(ReplyUrl(r.parent, ""), DefaultRetries, DefaultDelay)
                ELSE IdleFetch
       /\ fr' = IF r.status = "replies"
                THEN [parentId |-> r.parent, replies |-> <<>>, pageToken |-> ""]
                ELSE IdleFr
       /\ rReqLog' = IF r.status = "replies" THEN <<"">> ELSE <<>>
       /\ progress' = IF r.status = "pageEnd"
                      THEN Logged(progress, Progress(Len(r.comments)))
                      ELSE progress
       /\ responses' = IF r.status = "threw"
                       THEN Append(responses,
                                   ErrorResponse(WalkError(fac.videoId, TypeErrorCause)))
                       ELSE responses

(***************************************************************************)
(* The fetchComments listener.                                             *)
(***************************************************************************)
Tab(exists, url) == [exists |-> exists, url |-> url]
TabUrls == {"", "not a url", "https://www.youtube.com/", "https://www.youtube.com/watch?v=X"}
Tabs == {Tab(FALSE, "")} \cup {Tab(TRUE, u) : u \in TabUrls}

\* new URL(tab.url).searchParams.get("v"), "" when the URL does not parse or has no v
VideoIdOfUrl(url) ==
    IF url = "https://www.youtube.com/watch?v=X" THEN "X" ELSE ""

\* A key test that lets every value through.
KeyAlwaysPresent(apiKey) == FALSE

\* if (!apiKey)
KeyMissing(apiKey) == apiKey = ""

Init ==
    /\ impl = "background"
    /\ pc = "idle"
    /\ script = <<>>
    /\ fw = IdleFetch
    /\ storage \in {Storage(FALSE, ""), Storage(TRUE, ""), Storage(TRUE, "K")}
    /\ RunIdle

\* The listener is called with { action: "fetchComments", videoId } and runs to
\* its first await: chrome.tabs.query without a videoId, storageGet with one.
ReceiveMessage ==
    /\ pc = "idle"
    /\ \E v \in VideoIds \cup {""} :
          /\ fac' = [fac EXCEPT !.videoId = v]
          /\ pc' = IF v = "" THEN "tabsQuery" ELSE "storageGet"
    /\ UNCHANGED <<impl, total, script, popup, runs, content, engine, fw, fr, responses, progress, updates, storage,
                   reqLog, nextLog, rReqLog, served, repliesOf, failedParents, nextId,
                   failures>>

\* chrome.tabs.query calls back.
TabsQueryDone ==
    /\ pc = "tabsQuery"
    /\ \E tab \in Tabs :
          LET v == VideoIdOfUrl(tab.url)
          IN IF ~tab.exists \/ tab.url = ""
             THEN /\ responses' = Append(responses,
                        ErrorResponse(Err("Could not determine active tab or URL", "", NoCause)))
                  /\ pc' = "done"
                  /\ fac' = fac
             ELSE IF v = ""
                  THEN /\ responses' = Append(responses,
                             ErrorResponse(Err("Video ID not provided.", "", NoCause)))
                       /\ pc' = "done"
                       /\ fac' = fac
                  ELSE /\ responses' = responses
                       /\ pc' = "storageGet"
                       /\ fac' = [fac EXCEPT !.videoId = v]
    /\ UNCHANGED <<impl, total, script, popup, runs, content, engine, fw, fr, progress, updates, storage, reqLog,
                   nextLog, rReqLog, served, repliesOf, failedParents, nextId, failures>>

\* storageGet(key): reject(err) when chrome.runtime.lastError is set, else
\* resolve(items?.[key] ?? null)
storageGet(store, lastError) ==
    IF lastError THEN Settled(TRUE, "rejected", "")
    ELSE Settled(FALSE, "resolved", IF store.hasKey THEN store.ytApiKey ELSE "")

\* await storageGet("ytApiKey").catch(e => { logWarn(...); return null })
CaughtAsNull(read) == IF read.state = "rejected" THEN "" ELSE read.value

\* storageGet("ytApiKey") settles; a rejection is caught and read as null.  With
\* a key, fetchAllComments starts and requests the first page.
StorageGetDone ==
    /\ pc = "storageGet"
    /\ \E lastError \in BOOLEAN :
          LET read == storageGet(storage, lastError)
              apiKey == CaughtAsNull(read)
          IN IF KeyMissing(apiKey)
             THEN /\ responses' = Append(responses,
                        ErrorResponse(Err("YouTube API key not set.", "", NoCause)))
                  /\ pc' = "done"
                  /\ fac' = [fac EXCEPT !.read = read]
                  /\ UNCHANGED <<fw, reqLog>>
             ELSE /\ responses' = responses
                  /\ pc' = "outerFetch"
                  /\ fac' = [fac EXCEPT !.apiKey = apiKey, !.read = read]
                  /\ fw' = FetchCall(OuterUrl(fac.videoId, ""), DefaultRetries, DefaultDelay)
                  /\ reqLog' = Logged(reqLog, "")
    /\ UNCHANGED <<impl, total, script, popup, runs, content, engine, fr, progress, updates, storage,
                   nextLog, rReqLog, served, repliesOf, failedParents, nextId, failures>>

OuterResponses ==
    {Response(200, JsonBody(p)) : p \in OuterPages}
        \cup (IF MayFail THEN BadResponses ELSE {})

ReplyResponses ==
    {Response(200, JsonBody(p)) : p \in ReplyPages}
        \cup (IF MayFail THEN BadResponses ELSE {})

\* A failed walk that resolves with the comments of the pages fetched so far,
\* so that the listener goes on to sendAllComments.
WalkResolvesPartially == "analyze"

\* catch (err) { ...; throw new Error(...) } of fetchAllComments: the
\* listener's await rejects, sendAllComments is skipped, and the listener's
\* catch ends the run.
WalkRejects == "done"

\* The pending attempt of the fetchWithRetry call made by fetchAllComments
\* settles.  A returned page is walked item by item; a thrown error passes
\* through the catch of fetchAllComments to the catch of the listener.
OuterAttempt ==
    /\ pc = "outerFetch"
    /\ fw.status = "fetching"
    /\ \E resp \in OuterResponses :
          LET f == FetchStep(impl, fw, resp)
              bad == resp \in BadResponses
              items == resp.body.json.items
          IN /\ failures' = IF bad THEN failures + 1 ELSE failures
             /\ nextId' = IF bad THEN nextId ELSE nextId + Len(items)
             /\ served' = IF bad \/ items = <<>> THEN served ELSE Append(served, items)
             /\ IF f.status = "backoff"
                THEN /\ fw' = f
                     /\ UNCHANGED <<pc, fac, fr, responses, progress, nextLog, rReqLog>>
                ELSE IF f.status = "threw"
                     THEN /\ fw' = f
                          /\ pc' = WalkRejects
                          /\ responses' = Append(responses,
                                ErrorResponse(WalkError(fac.videoId, f.error)))
                          /\ UNCHANGED <<fac, fr, progress, nextLog, rReqLog>>
                     ELSE /\ nextLog' = Logged(nextLog, f.value.nextPageToken)
                          /\ ContinuePage(f.value.items, 1, fac.comments,
                                          f.value.nextPageToken)
    /\ UNCHANGED <<impl, total, script, popup, runs, content, engine, updates, storage, reqLog, repliesOf,
                   failedParents>>

\* The pending attempt of the fetchWithRetry call made by fetchReplies settles.
\* A page with a nextPageToken leads to the next request; the last page, or an
\* error caught inside fetchReplies, returns the replies to fetchAllComments,
\* which goes on with the next item.  (fetchReplies never rejects, so the
\* .catch(() => []) at its call site never runs.)
ReplyAttempt ==
    /\ pc = "replyFetch"
    /\ fw.status = "fetching"
    /\ \E resp \in ReplyResponses :
          LET f == FetchStep(impl, fw, resp)
              bad == resp \in BadResponses
              items == resp.body.json.items
          IN /\ failures' = IF bad THEN failures + 1 ELSE failures
             /\ nextId' = IF bad THEN nextId ELSE nextId + Len(items)
             /\ repliesOf' = IF bad THEN repliesOf
                             ELSE [repliesOf EXCEPT ![fr.parentId] =
                                        @ \o [k \in 1..Len(items) |-> items[k].id]]
             /\ IF f.status = "backoff"
                THEN /\ fw' = f
                     /\ UNCHANGED <<pc, fac, fr, responses, progress, failedParents,
                                    rReqLog>>
                ELSE IF f.status = "returned" /\ f.value.nextPageToken # ""
                     THEN /\ fr' = [fr EXCEPT !.replies = PushReplies(@, f.value.items),
                                              !.pageToken = f.value.nextPageToken]
                          /\ fw' = FetchCall(ReplyUrl(fr.parentId, f.value.nextPageToken),
                                             DefaultRetries, DefaultDelay)
                          /\ rReqLog' = LastTwo(rReqLog, f.value.nextPageToken)
                          /\ UNCHANGED <<pc, fac, responses, progress, failedParents>>
                     ELSE LET replies == IF f.status = "returned"
                                         THEN PushReplies(fr.replies, f.value.items)
                                         ELSE RepliesAfterCatch(fr.replies)
                          IN /\ failedParents' = IF f.status = "threw"
                                                 THEN failedParents \cup {fr.parentId}
                                                 ELSE failedParents
                             /\ ContinuePage(fac.items, ResumeAfterReplies(fac.idx),
                                             PushAll(fac.comments, replies), fac.next)
    /\ UNCHANGED <<impl, total, script, popup, runs, content, engine, updates, storage, reqLog, nextLog, served>>

\* The 200 ms pause after the progress message ends: the do...while tests
\* pageToken and requests the next page, or fetchAllComments returns and
\* sendAllComments posts the comments to the analysis service.
ThrottleDone ==
    /\ pc = "throttle"
    /\ IF fac.pageToken # ""
       THEN /\ pc' = "outerFetch"
            /\ fw' = FetchCall(OuterUrl(fac.videoId, fac.pageToken),
                               DefaultRetries, DefaultDelay)
            /\ reqLog' = Logged(reqLog, fac.pageToken)
       ELSE /\ pc' = "analyze"
            /\ UNCHANGED <<fw, reqLog>>
    /\ UNCHANGED <<impl, total, script, popup, runs, content, engine, fac, fr, responses, progress, updates, storage,
                   nextLog, rReqLog, served, repliesOf, failedParents, nextId, failures>>

AnalysisOutcomes == {"ok", "network error", "Analysis API error", "Invalid JSON from analysis API"}

\* The POST to /analyze settles.  On a failure sendAllComments sends updateUI
\* with the error and returns, and the listener answers with success; on
\* success it awaits storageSet.
AnalyzeDone ==
    /\ pc = "analyze"
    /\ \E outcome \in AnalysisOutcomes :
          IF outcome = "ok"
          THEN /\ fac' = [fac EXCEPT !.data = fac.comments]
               /\ pc' = "storageSet"
               /\ UNCHANGED <<responses, updates>>
          ELSE /\ updates' = Append(updates, UpdateError(outcome))
               /\ responses' = Append(responses, SuccessResponse(Len(fac.comments)))
               /\ pc' = "done"
               /\ fac' = fac
    /\ UNCHANGED <<impl, total, script, popup, runs, content, engine, fw, fr, progress, storage, reqLog,
                   nextLog, rReqLog, served, repliesOf, failedParents, nextId, failures>>

\* storageSet({ analysisResults, lastFetchedAt }) settles.  A rejection is
\* caught on the spot (.catch(e => logWarn(...))) and leaves storage as it
\* was; either way updateUI is sent with the results, sendAllComments returns
\* and the listener answers with success.
StorageSetDone ==
    /\ pc = "storageSet"
    /\ \E writeOk \in BOOLEAN :
          storage' = IF writeOk
                     THEN [storage EXCEPT !.analysisResults = fac.data, !.saved = TRUE]
                     ELSE storage
    /\ updates' = Append(updates, UpdateResults(fac.data))
    /\ responses' = Append(responses, SuccessResponse(Len(fac.comments)))
    /\ pc' = "done"
    /\ UNCHANGED <<impl, total, script, popup, runs, content, engine, fw, fac, fr, progress, reqLog,
                   nextLog, rReqLog, served, repliesOf, failedParents, nextId, failures>>

Next ==
    \/ ReceiveMessage
    \/ TabsQueryDone
    \/ StorageGetDone
    \/ OuterAttempt
    \/ ReplyAttempt
    \/ Backoff
    \/ ThrottleDone
    \/ AnalyzeDone
    \/ StorageSetDone

Spec == Init /\ [][Next]_vars

\* Every pending network call, storage call and timer settles.
FairSpec == Spec /\ WF_vars(Next)

(***************************************************************************)
(* Claims about a stand-alone fetchWithRetry call (FetchSpec).             *)
(***************************************************************************)
Last(s) == s[Len(s)]
Finished == fw.status \in {"returned", "threw"}

\* An attempt fails at the source: no response, or a status that is not success.
SourceFails(resp) == ~Ok(resp)
\* An attempt succeeds at the source: success status and a JSON payload.
SourceSucceeds(resp) == Ok(resp) /\ resp.body.kind = "json"

FailsThenSucceeds(k) ==
    /\ k < Len(script)
    /\ \A j \in 1..k : SourceFails(script[j])
    /\ SourceSucceeds(script[k + 1])

AlwaysFails == \A j \in 1..Len(script) : SourceFails(script[j])

\* C2: fetchWithRetry of background.js returns a payload only from an attempt whose HTTP status
\* is success; a non-success response, whatever its body, is a failed attempt.
C2_ReturnsOnlyFromSuccessStatus ==
    (pc = "unit" /\ impl = "background" /\ fw.status = "returned") => Ok(Last(fw.attempts))

\* C7: against a source that fails on the first k attempts and then succeeds
\* (k < retries), the call returns the success payload after exactly k+1 attempts
\* and k delays, the j-th delay lasting j * delay.
C7_FailsThenSucceeds ==
    \A k \in 0..MaxRetries :
        (pc = "unit" /\ Finished /\ FailsThenSucceeds(k)) =>
            /\ fw.status = "returned"
            /\ fw.value = script[k + 1].body.json
            /\ Len(fw.attempts) = k + 1
            /\ fw.delays = [j \in 1..k |-> j * fw.delay]

\* C8: against a source that always fails, fetchWithRetry of background.js makes exactly retries attempts
\* and retries-1 delays and then fails with an exhaustion error that carries the
\* reason of the last attempt.
C8_AlwaysFails ==
    (pc = "unit" /\ impl = "background" /\ Finished /\ AlwaysFails) =>
        /\ fw.status = "threw"
        /\ Len(fw.attempts) = fw.retries
        /\ Len(fw.delays) = fw.retries - 1
        /\ fw.error.type = "FetchExhausted"
        /\ fw.lastReason # NoReason
        /\ fw.error.reason = fw.lastReason

\* The response to the attempt handled last is a non-success status whose body
\* is a structured error with a service message.
LastWasServiceError ==
    /\ pc = "unit"
    /\ impl = "background"
    /\ fw.status \in {"backoff", "threw"}
    /\ LET resp == Last(fw.attempts)
       IN resp.net /\ ~Ok(resp) /\ resp.body.kind = "json"
             /\ resp.body.json.errorMessage # ""

\* C29: when the body of a non-success response is a structured error with a
\* service message, the reason of that attempt, and the reason carried by the
\* exhaustion error when it was the last attempt, is that service message.
C29_ServiceMessageIsReason ==
    LastWasServiceError =>
        /\ fw.lastReason.type = "YouTubeAPI"
        /\ fw.lastReason.message = Last(fw.attempts).body.json.errorMessage
        /\ fw.status = "threw" => fw.error.reason = fw.lastReason

(***************************************************************************)
(* Claims about a fetchComments run (Spec, FairSpec).                      *)
(***************************************************************************)
InSeq(x, s) == \E i \in 1..Len(s) : s[i] = x
NoRepeat(log) == \A i \in 1..(Len(log) - 1) : log[i] # log[i + 1]
IndexOf(x, s) == CHOOSE i \in 1..Len(s) : s[i] = x

\* fetchAllComments has returned its comments to the listener.
WalkReturned ==
    \/ pc \in {"analyze", "storageSet"}
    \/ pc = "done" /\ Len(responses) = 1 /\ responses[1].success

\* The items the source has delivered, page after page.
RECURSIVE Concat(_)
Concat(pages) == IF pages = <<>> THEN <<>> ELSE Head(pages) \o Concat(Tail(pages))
ServedItems == Concat(served)

\* The records of the delivered items in page order and item order, each parent
\* followed by the replies the source delivered for it.
RECURSIVE Expected(_)
Expected(items) ==
    IF items = <<>> THEN <<>>
    ELSE LET item == Head(items)
         IN (IF HasTopSnippet(item) THEN <<item.id>> ELSE <<>>)
                \o (IF item.hasSnippet /\ item.replyCount > 0 THEN repliesOf[item.id] ELSE <<>>)
                \o Expected(Tail(items))

\* C1: every fetchComments message is answered by exactly one sendResponse call,
\* never none and never two, given that every network call, storage call and
\* timer settles.
C1_ExactlyOneResponse ==
    /\ [](Len(responses) <= 1)
    /\ (pc # "idle") ~> (Len(responses) = 1)

\* C3: neither page walk requests a page with the cursor of the request it made
\* just before.
C3_NeverRequestsSameCursorAgain == NoRepeat(reqLog) /\ NoRepeat(rReqLog)

\* C4: a reply walk that fails does not fail the run: an error response comes
\* only from an exhausted commentThreads request or a thrown TypeError, and a
\* walk that returns holds every top-level comment delivered and every reply
\* delivered for the parents whose reply walk did not fail.
C4_ReplyFailureIsolated ==
    failedParents # {} =>
        /\ \A i \in 1..Len(responses) :
              ~responses[i].success =>
                  \/ responses[i].error.cause = TypeErrorCause
                  \/ fw.status = "threw" /\ fw.url.endpoint = "commentThreads"
        /\ WalkReturned =>
              \A k \in 1..Len(ServedItems) :
                 LET item == ServedItems[k]
                 IN /\ HasTopSnippet(item) => InSeq(item.id, fac.comments)
                    /\ item.id \notin failedParents =>
                          \A j \in 1..Len(repliesOf[item.id]) :
                             InSeq(repliesOf[item.id][j], fac.comments)

C4_Witness ==
    /\ pc = "analyze"
    /\ failedParents # {}
    /\ \E q \in (1..MaxRecords) \ failedParents : repliesOf[q] # <<>>

C6_MalformedItemSkipped ==
    \A i \in 1..Len(responses) : responses[i].error.cause # TypeErrorCause

\* C9: a walk that returns has requested the first page without a cursor and then
\* exactly the cursors the responses carried, one request each, up to a response
\* without cursor, and returns the records of all pages in page order and item
\* order, each parent followed by its replies.
C9_PagesInOrderOnce ==
    (WalkReturned /\ Len(reqLog) < MaxLog) =>
        /\ Len(reqLog) >= 1
        /\ reqLog[1] = ""
        /\ Len(nextLog) = Len(reqLog)
        /\ \A i \in 2..Len(reqLog) : reqLog[i] = nextLog[i - 1]
        /\ \A i \in 1..(Len(nextLog) - 1) : nextLog[i] # ""
        /\ nextLog[Len(nextLog)] = ""
        /\ fac.comments = Expected(ServedItems)

C9_Witness ==
    /\ WalkReturned
    /\ reqLog = <<"", "a", "b">>
    /\ nextLog = <<"a", "b", "">>
    /\ Len(served) = 3
    /\ fac.comments = <<1, 2, 3>>

\* C10: when fetchWithRetry gives up on a commentThreads page the run is over:
\* nothing is pending, no updateUI was sent, and the one response is an error
\* that names the video and carries the exhaustion error with the reason of
\* the last attempt.
OuterExhausted == pc # "unit" /\ fw.status = "threw" /\ fw.url.endpoint = "commentThreads"

C10_OuterFailureEndsRun ==
    OuterExhausted =>
        /\ pc = "done"
        /\ ~ENABLED Next
        /\ updates = <<>>
        /\ Len(fw.attempts) = DefaultRetries
        /\ Len(responses) = 1
        /\ ~responses[1].success
        /\ responses[1].error.videoId = "X"
        /\ responses[1].error.cause.type = "FetchExhausted"
        /\ responses[1].error.cause.reason = fw.lastReason
        /\ fw.lastReason # NoReason

C10_Witness == OuterExhausted /\ Len(reqLog) >= 2 /\ fac.comments # <<>>

\* The awaits of the page walk and of sendAllComments.
WalkStates == {"outerFetch", "replyFetch", "throttle"}
AnalysisStates == {"analyze", "storageSet"}

\* C33: when the outer page walk fails after some pages were already
\* fetched, the partially collected records are discarded: the
\* classification service is not called for that run, and the stored
\* analysisResults and lastFetchedAt are left unchanged.
C33_PartialRecordsDiscarded ==
    (OuterExhausted /\ nextLog # <<>>) =>
        /\ pc \notin AnalysisStates
        /\ ~ENABLED AnalyzeDone
        /\ ~ENABLED StorageSetDone
        /\ updates = <<>>
        /\ fac.data = <<>>
        /\ storage.analysisResults = <<>>
        /\ ~storage.saved

\* The walk failed on its second page with the two records of the first
\* page collected.
C33_Witness ==
    /\ OuterExhausted
    /\ Len(nextLog) = 1
    /\ Len(fac.comments) = 2
    /\ Len(responses) = 1
    /\ ~storage.saved

\* The updateUI messages that carry results
IsResults(m) == m.action = "updateUI" /\ m.error = ""
ResultUpdates == SelectSeq(updates, IsResults)

\* C37: in every run the updateUI notification carrying results is sent only
\* after the storage write of those results has completed, and the results
\* the popup then reads from storage are exactly the results carried by that
\* notification, provided no other run writes in between; this holds also
\* when the storage write fails.
C37_NotifiedAfterStored ==
    \A i \in 1..Len(ResultUpdates) :
        /\ pc = "done"
        /\ storage.saved
        /\ storage.analysisResults = ResultUpdates[i].analysisResults

\* The order alone: results are notified only once storageSet has settled,
\* and storage holds them if it holds any results at all.
NotifiedAfterWriteSettled ==
    \A i \in 1..Len(ResultUpdates) :
        /\ pc = "done"
        /\ ResultUpdates[i].analysisResults = fac.data
        /\ storage.saved => storage.analysisResults = ResultUpdates[i].analysisResults

\* Results of two comments were stored and notified.
StoredThenNotified ==
    /\ pc = "done"
    /\ Len(ResultUpdates) = 1
    /\ storage.saved
    /\ Len(storage.analysisResults) = 2

\* C39: absence of the credential and a failure to read it are distinct
\* outcomes of the run: storageGet resolves with null for an absent key and
\* rejects for a store error, and the trigger's response to a read failure
\* differs from its response to an absent credential.
C39_ReadFailureDistinct ==
    fac.read # NotRead =>
        /\ fac.read.lastError <=> fac.read.state = "rejected"
        /\ (~fac.read.lastError /\ ~storage.hasKey) =>
              fac.read.state = "resolved" /\ fac.read.value = ""
        /\ (fac.read.state = "rejected" /\ pc = "done") =>
              /\ Len(responses) = 1
              /\ responses[1] # ErrorResponse(Err("YouTube API key not set.", "", NoCause))

\* storageGet alone: it resolves with null for an absent key, with the key
\* for a stored one, and rejects for a store error.
StorageGetSettles ==
    fac.read # NotRead =>
        /\ fac.read.lastError <=> fac.read.state = "rejected"
        /\ ~fac.read.lastError =>
              /\ fac.read.state = "resolved"
              /\ fac.read.value = (IF storage.hasKey THEN storage.ytApiKey ELSE "")

\* A run whose read of a stored key failed has answered.
ReadFailureAnswered ==
    /\ pc = "done"
    /\ fac.read.state = "rejected"
    /\ storage = Storage(TRUE, "K")
    /\ Len(responses) = 1

\* C11: without a resolvable video id, or without a stored non-empty API key, the
\* run answers with an error and requests nothing from the comment source and
\* nothing from the classification service.
C11_FailFastWithoutIdOrKey ==
    (fac.videoId = "" \/ ~storage.hasKey \/ storage.ytApiKey = "") =>
        /\ pc \notin WalkStates \cup AnalysisStates
        /\ fw = IdleFetch
        /\ reqLog = <<>>
        /\ updates = <<>>
        /\ pc = "done" =>
              /\ Len(responses) = 1
              /\ ~responses[1].success
              /\ responses[1].error.message \in
                    {"Could not determine active tab or URL", "Video ID not provided.",
                     "YouTube API key not set."}
              /\ ~ENABLED Next

C11_Witness ==
    /\ pc = "done"
    /\ fac.videoId = "X"
    /\ storage = Storage(TRUE, "")
    /\ responses = <<ErrorResponse(Err("YouTube API key not set.", "", NoCause))>>

\* The run has passed the checks of video id and API key.
PassedPreconditions == fac.videoId # "" /\ fac.apiKey # ""

\* C12: a run that passed the precondition checks and has ended (other than on
\* a malformed item, the case of C6) has sent exactly one updateUI message: with
\* the classification results when its response is a success and classification
\* succeeded, with an error otherwise, also when the outer page walk failed.
C12_OneCompletionNotification ==
    (pc = "done" /\ PassedPreconditions
        /\ responses[1].error.cause # TypeErrorCause) =>
        /\ Len(updates) = 1
        /\ updates[1].action = "updateUI"
        /\ ~responses[1].success => updates[1].error # ""

\* The classification call has failed: sendAllComments reported one of its errors.
ClassificationFailed ==
    \E i \in 1..Len(updates) : updates[i].error \in AnalysisOutcomes \ {"ok"}

\* C13: when the classification call fails after the page walk returned, the
\* run is over with the one response {success: true, totalComments} counting the
\* fetched records, nothing was stored, and the failure shows only as the one
\* updateUI message with an error.
C13_ClassificationFailureStillFetched ==
    ClassificationFailed =>
        /\ pc = "done"
        /\ responses = <<[success |-> TRUE, totalComments |-> Len(fac.comments),
                          error |-> NoErr]>>
        /\ fac.comments = Expected(ServedItems)
        /\ Len(updates) = 1
        /\ updates[1].action = "updateUI"
        /\ updates[1].analysisResults = <<>>
        /\ ~storage.saved

C13_Witness ==
    /\ ClassificationFailed
    /\ updates[1].error = "Invalid JSON from analysis API"
    /\ Len(fac.comments) = 2

\* C15: fetchAllComments has sent one progressUpdate for every commentThreads
\* page it received, once the page's items and their replies are processed and
\* before the next page is requested; each carries the number of records
\* collected so far, and the counts never decrease.
C15_OneProgressPerPage ==
    Len(nextLog) < MaxLog =>
        /\ \A i \in 1..Len(progress) : progress[i].action = "progressUpdate"
        /\ \A i \in 1..(Len(progress) - 1) :
              progress[i].processedComments <= progress[i + 1].processedComments
        /\ pc = "replyFetch" => Len(progress) = Len(nextLog) - 1
        /\ pc \in {"outerFetch", "throttle", "analyze", "storageSet", "done"} =>
              Len(progress) = Len(nextLog)
        /\ pc = "throttle" =>
              progress[Len(progress)].processedComments = Len(fac.comments)

\* The source served two commentThreads pages of one item each, without replies
\* and without a failing attempt, and classification and storing succeeded.
TwoPagesOfOneItem ==
    /\ pc = "done"
    /\ failures = 0
    /\ served = << <<PlainItem(1)>>, <<PlainItem(2)>> >>
    /\ Len(nextLog) = 2
    /\ storage.saved

\* C16: end to end, for a resolved video id, a stored key, two pages of one item
\* each without replies and a classification that succeeds, the record list has
\* length 2, the progressUpdate messages carry 1 then 2, the one updateUI message
\* carries the classification result and the response is
\* {success: true, totalComments: 2}.
C16_EndToEndTwoPages ==
    TwoPagesOfOneItem =>
        /\ fac.videoId = "X" /\ fac.apiKey = "K"
        /\ fac.comments = <<1, 2>>
        /\ reqLog = <<"", nextLog[1]>>
        /\ nextLog[2] = ""
        /\ Len(progress) = 2
        /\ progress[1].action = "progressUpdate" /\ progress[1].processedComments = 1
        /\ progress[2].action = "progressUpdate" /\ progress[2].processedComments = 2
        /\ Len(updates) = 1
        /\ updates[1].action = "updateUI"
        /\ updates[1].error = ""
        /\ updates[1].analysisResults = fac.data
        /\ storage.analysisResults = fac.data
        /\ responses = <<[success |-> TRUE, totalComments |-> 2, error |-> NoErr]>>

C16_Witness == TwoPagesOfOneItem /\ nextLog = <<"a", "">>

\* A request to the remote source is in flight (or waits for its retry).
InFlight == fw.status \in {"fetching", "backoff"}

\* The delivered items up to the one fetchAllComments is working on.
ItemsReached ==
    SubSeq(ServedItems, 1, Len(ServedItems) - (Len(fac.items) - fac.idx))

\* C17: the one request in flight belongs to the step the walk is at.  While a
\* commentThreads page is requested no reply walk is open and every item
\* delivered before, with all its replies, is in the record list; while a
\* comments page is requested it is for the parent the item loop stands at, and
\* the items before it and their replies are done.
C17_OneRequestAtATime ==
    /\ InFlight => pc \in {"outerFetch", "replyFetch"}
    /\ pc = "outerFetch" =>
          /\ InFlight
          /\ fw.url = OuterUrl(fac.videoId, fac.pageToken)
          /\ fr = IdleFr
          /\ fac.idx = IF Len(nextLog) = 0 THEN 0 ELSE Len(fac.items) + 1
          /\ fac.comments = Expected(ServedItems)
    /\ pc = "replyFetch" =>
          /\ InFlight
          /\ fw.url = ReplyUrl(fr.parentId, fr.pageToken)
          /\ fac.idx \in 1..Len(fac.items)
          /\ fac.items[fac.idx].id = fr.parentId
          /\ fr.replies = repliesOf[fr.parentId]
          /\ fac.comments \o fr.replies = Expected(ItemsReached)

C17_Witness ==
    /\ pc = "replyFetch"
    /\ fac.idx = 2
    /\ fr.parentId = 2
    /\ repliesOf[1] = <<3>>
    /\ fac.comments = <<1, 3, 2>>

(***************************************************************************)
(* The popup page (popup.js): the updateUI listener, updateCommentsData,   *)
(* the aggregation functions and renderDashboard.                          *)
(***************************************************************************)
\* comments in the stored analysisResults
MaxComments == 3
\* updateUI messages the popup receives
MaxUpdates == 2

\* A timestamp as the classification service returns it: absent, a number of
\* seconds, or a string that is no number and no date.
Ts(kind, n) == [kind |-> kind, n |-> n]
NoTs == Ts("missing", 0)
NumTs(n) == Ts("number", n)
TextTs == Ts("text", 0)
RawTimestamps == {NoTs, NumTs(10), NumTs(45), TextTs}

\* A sentiment as the service returns it; "" stands for an absent one.
RawSentiments == {"positive", "NEGATIVE", "mixed", ""}
SentimentKeys == {"positive", "neutral", "negative"}

\* One entry of analysisResults.comments, reduced to the fields read here.
Prediction(sentiment, timestamp) ==
    [id |-> 0, sentiment |-> sentiment, timestamp |-> timestamp, sentimentStrength |-> ""]
Predictions == {Prediction(x, t) : x \in RawSentiments, t \in RawTimestamps}
PredictionLists == UNION {[1..n -> Predictions] : n \in 0..MaxComments}

\* String.prototype.toLowerCase on the sentiment and strength values
ToLowerCase(str) ==
    IF str = "NEGATIVE" THEN "negative" ELSE IF str = "STRONG" THEN "strong" ELSE str

\* The object updateCommentsData builds for one prediction: id: p.id,
\* sentiment: p.sentiment?.toLowerCase() || 'neutral', timestamp: p.timestamp || 0,
\* strength: p.sentimentStrength?.toLowerCase() || 'weak'
NormalizeComment(p) ==
    [id |-> p.id,
     sentiment |-> IF ToLowerCase(p.sentiment) = "" THEN "neutral" ELSE ToLowerCase(p.sentiment),
     timestamp |-> IF p.timestamp.kind = "missing" THEN NumTs(0) ELSE p.timestamp,
     strength |-> IF ToLowerCase(p.sentimentStrength) = "" THEN "weak"
                  ELSE ToLowerCase(p.sentimentStrength)]

\* predictions.map(p => ({ ... }))
NormalizeAll(predictions) == [k \in 1..Len(predictions) |-> NormalizeComment(predictions[k])]

\* A Date, null, or an Invalid Date.
Date(isNull, valid, ms) == [isNull |-> isNull, valid |-> valid, ms |-> ms]
NullDate == Date(TRUE, FALSE, 0)
InvalidDate == Date(FALSE, FALSE, 0)

\* toDateFromAny(ts): null for a falsy ts, new Date(seconds * 1000) for a number
\* below 1e12, new Date(ts) for a string that is no number: an Invalid Date
toDateFromAny(ts) ==
    IF ts.kind = "missing" \/ (ts.kind = "number" /\ ts.n = 0)
    THEN NullDate
    ELSE IF ts.kind = "number"
         THEN Date(FALSE, TRUE, ts.n * 1000)
         ELSE InvalidDate

\* getSentimentCounts: commentsData.reduce((acc, c) => { acc[c.sentiment] =
\* (acc[c.sentiment] || 0) + 1; return acc }, { positive: 0, neutral: 0, negative: 0 })
RECURSIVE ReduceCounts(_, _)
ReduceCounts(data, acc) ==
    IF data = <<>> THEN acc
    ELSE LET key == Head(data).sentiment
             old == IF key \in DOMAIN acc THEN acc[key] ELSE 0
         IN ReduceCounts(Tail(data),
                [k \in DOMAIN acc \cup {key} |-> IF k = key THEN old + 1 ELSE acc[k]])

getSentimentCounts(commentsData) ==
    ReduceCounts(commentsData, [k \in SentimentKeys |-> 0])

\* The key of a timeline bin: a number of seconds, or NaN.
Bin(nan, start) == [nan |-> nan, start |-> start]
NaNBin == Bin(TRUE, 0)

\* const sec = Math.floor(ts.getTime() / 1000); const bin = Math.floor(sec / 30) * 30
BinOfDate(date) ==
    IF ~date.valid THEN NaNBin ELSE Bin(FALSE, ((date.ms \div 1000) \div 30) * 30)

\* map[bin] = { bin, positive: 0, neutral: 0, negative: 0 }
NewRow(bin) == [bin |-> bin, positive |-> 0, neutral |-> 0, negative |-> 0]

\* if (c.sentiment && map[bin][c.sentiment] !== undefined) map[bin][c.sentiment] += 1
CountInRow(row, sentiment) ==
    IF sentiment \in SentimentKeys THEN [row EXCEPT ![sentiment] = @ + 1] ELSE row

\* commentsData.forEach(c => { const ts = toDateFromAny(c.timestamp); if (!ts) return; ... })
RECURSIVE FillBins(_, _)
FillBins(data, map) ==
    IF data = <<>> THEN map
    ELSE LET c == Head(data)
             ts == toDateFromAny(c.timestamp)
         IN IF ts.isNull
            THEN FillBins(Tail(data), map)
            ELSE LET bin == BinOfDate(ts)
                     row == IF bin \in DOMAIN map THEN map[bin] ELSE NewRow(bin)
                 IN FillBins(Tail(data),
                        [b \in DOMAIN map \cup {bin} |->
                            IF b = bin THEN CountInRow(row, c.sentiment) ELSE map[b]])

\* Object.values(map).sort((a, b) => a.bin - b.bin): the rows with a number as
\* key come in ascending order; the comparator yields NaN against the NaN row,
\* which sort reads as equal, so that row stays where Object.values put it, last.
RECURSIVE SortedRows(_, _)
SortedRows(map, keys) ==
    IF keys = {} THEN <<>>
    ELSE LET numbers == {b \in keys : ~b.nan}
         IN IF numbers = {}
            THEN <<map[NaNBin]>>
            ELSE LET first == CHOOSE b \in numbers : \A o \in numbers : b.start <= o.start
                 IN <<map[first]>> \o SortedRows(map, keys \ {first})

EmptyMap == [b \in {} |-> NewRow(b)]

processTimelineData(commentsData) ==
    LET map == FillBins(commentsData, EmptyMap)
    IN SortedRows(map, DOMAIN map)

\* Number.prototype.toFixed(1) of num / den * 100, in tenths, rounded down.
TruncatedPercent(num, den) == (1000 * num) \div den

\* (num / den * 100).toFixed(1) in tenths: the closest tenth, the larger of two
\* equally close ones
Percent(num, den) == (2000 * num + den) \div (2 * den)

\* The last n elements of a sequence, or all of them if there are fewer.
SliceFromEnd(seq, n) == SubSeq(seq, Len(seq) - Min(n, Len(seq)) + 1, Len(seq))

\* Array.prototype.slice(0, n)
Slice(seq, n) == SubSeq(seq, 1, Min(n, Len(seq)))

\* renderDetailedBreakdown: the records of the selected sentiment, those of
\* strength strong and weak among them, their number or 1 if there is none
\* (allStrong.length + allWeak.length || 1), the two percentages, and the
\* first five records of either strength (slice(0, 5))
renderDetailedBreakdown(commentsData, selectedSentiment) ==
    LET IsSelected(c) == c.sentiment = selectedSentiment
        IsStrong(c) == c.strength = "strong"
        IsWeak(c) == c.strength = "weak"
        filtered == SelectSeq(commentsData, IsSelected)
        allStrong == SelectSeq(filtered, IsStrong)
        allWeak == SelectSeq(filtered, IsWeak)
        sum == IF Len(allStrong) + Len(allWeak) = 0 THEN 1 ELSE Len(allStrong) + Len(allWeak)
    IN Breakdown(TRUE, selectedSentiment, Len(filtered),
                 Percent(Len(allStrong), sum), Percent(Len(allWeak), sum),
                 Slice(allStrong, 5), Slice(allWeak, 5))

\* renderDashboard: the page shows the aggregates of commentsData, and the
\* breakdown of the selected sentiment if there is one.
renderDashboard(page, commentsData) ==
    [page EXCEPT !.commentsData = commentsData,
                 !.display = "dashboard",
                 !.counts = getSentimentCounts(commentsData),
                 !.timeline = processTimelineData(commentsData),
                 !.breakdown = IF page.selectedSentiment # ""
                               THEN renderDetailedBreakdown(commentsData, page.selectedSentiment)
                               ELSE @]

\* The popup is open; storage holds the analysisResults of the last run that
\* stored any (none, when analysisResults has no comments).
PopupInit ==
    /\ impl = "background"
    /\ pc = "popup"
    /\ total = 0
    /\ script = <<>>
    /\ fw = IdleFetch
    /\ \E results \in PredictionLists :
          storage = [Storage(TRUE, "K") EXCEPT !.analysisResults = results,
                                               !.saved = results # <<>>]
    /\ RunIdle

\* An updateUI message arrives, with results or with an error: the listener
\* calls updateCommentsData, which calls chrome.storage.local.get.
OnUpdateUI ==
    /\ pc = "popup"
    /\ popup.received < MaxUpdates
    /\ \E kind \in {"results", "error"} :
          popup' = [popup EXCEPT !.pending = Append(@, kind), !.received = @ + 1]
    /\ UNCHANGED <<impl, script, fw, pc, total, runs, content, engine, fac, fr, responses, progress, updates,
                   storage, reqLog, nextLog, rReqLog, served, repliesOf, failedParents,
                   nextId, failures>>

\* chrome.storage.local.get calls back: with predictions the record set is
\* replaced and the dashboard rendered; without, only a log line is written.
StorageGetCallback ==
    /\ pc = "popup"
    /\ popup.pending # <<>>
    /\ LET predictions == storage.analysisResults
           page == [popup EXCEPT !.pending = Tail(@), !.handled = Head(popup.pending)]
       IN popup' = IF Len(predictions) > 0
                   THEN renderDashboard(page, NormalizeAll(predictions))
                   ELSE page
    /\ UNCHANGED <<impl, script, fw, pc, total, runs, content, engine, fac, fr, responses, progress, updates,
                   storage, reqLog, nextLog, rReqLog, served, repliesOf, failedParents,
                   nextId, failures>>

PopupNext == OnUpdateUI \/ StorageGetCallback

PopupSpec == PopupInit /\ [][PopupNext]_vars

(***************************************************************************)
(* Claims about the popup page (PopupSpec).                                *)
(***************************************************************************)
\* The dashboard has been rendered from the record set.
Rendered == pc = "popup" /\ popup.display = "dashboard"

RowTotal(row) == row.positive + row.neutral + row.negative

\* Number of records of a list that satisfy a test.
CountOf(data, Test(_)) == Cardinality({i \in 1..Len(data) : Test(data[i])})

\* The timestamp of a record resolves to a time: a number other than the 0
\* that updateCommentsData puts in place of an absent one.
Resolvable(c) == c.timestamp.kind = "number" /\ c.timestamp.n # 0

\* C14: once the popup has handled an updateUI message that carries an error,
\* it shows an error state, not a dashboard of aggregates.
C14_ErrorShownNotAggregates ==
    (pc = "popup" /\ popup.handled = "error") => popup.display = "error"

\* C18: the sentiment counts rendered have the keys positive, neutral and
\* negative, and their three values sum to the size of the record set.
C18_SentimentCountsSumToSize ==
    Rendered =>
        /\ SentimentKeys \subseteq DOMAIN popup.counts
        /\ popup.counts["positive"] + popup.counts["neutral"] + popup.counts["negative"]
              = Len(popup.commentsData)

\* C19: the time series rendered has its bins in strictly ascending order, every
\* bin start is a multiple of 30, and the three counts of a bin sum to the number
\* of records whose timestamp lies in [bin, bin + 30).
C19_TimelineBins ==
    Rendered =>
        LET rows == popup.timeline
        IN /\ \A i \in 1..Len(rows) : ~rows[i].bin.nan /\ rows[i].bin.start % 30 = 0
           /\ \A i \in 1..(Len(rows) - 1) : rows[i].bin.start < rows[i + 1].bin.start
           /\ \A i \in 1..Len(rows) :
                 LET InBin(c) == /\ Resolvable(c)
                                 /\ rows[i].bin.start <= c.timestamp.n
                                 /\ c.timestamp.n < rows[i].bin.start + 30
                 IN RowTotal(rows[i]) = CountOf(popup.commentsData, InBin)

\* C20: a record whose timestamp does not resolve makes no bin and adds to no
\* bin of the time series: every bin is the bin of a record with a resolvable
\* timestamp and counts no more than those records; the sentiment counts still
\* count every record.
C20_UnresolvableTimestampDropped ==
    Rendered =>
        LET rows == popup.timeline
        IN /\ \A i \in 1..Len(rows) :
                 LET InBin(c) == /\ Resolvable(c)
                                 /\ (c.timestamp.n \div 30) * 30 = rows[i].bin.start
                 IN /\ ~rows[i].bin.nan
                    /\ CountOf(popup.commentsData, InBin) > 0
                    /\ RowTotal(rows[i]) <= CountOf(popup.commentsData, InBin)
           /\ LET Counted(c) == c.sentiment \in DOMAIN popup.counts
              IN CountOf(popup.commentsData, Counted) = Len(popup.commentsData)

(***************************************************************************)
(* The aggregation functions of the popup, applied to a record set: the    *)
(* category matrix, the symbol ranking and the token ranking, next to the  *)
(* sentiment counts and the time series above.                             *)
(***************************************************************************)
\* records in a record set
MaxRows == 2

\* .slice(0, 6) of processEmojiData and .slice(0, 30) of processWordCloudData
EmojiCap == 6
TokenCap == 30

\* A string as the sequence of its characters.
Digits == <<"0", "1", "2", "3", "4", "5", "6", "7", "8", "9">>
Upper == <<"A", "B", "C", "D", "E", "F", "G", "H", "I", "J", "K", "L", "M",
           "N", "O", "P", "Q", "R", "S", "T", "U", "V", "W", "X", "Y", "Z">>
Lower == <<"a", "b", "c", "d", "e", "f", "g", "h", "i", "j", "k", "l", "m",
           "n", "o", "p", "q", "r", "s", "t", "u", "v", "w", "x", "y", "z">>

\* const stopWords = new Set([...])
stopWords == {
    <<"t", "h", "e">>, <<"a">>, <<"a", "n">>, <<"a", "n", "d">>, <<"o", "r">>,
    <<"b", "u", "t">>, <<"i", "s">>, <<"a", "r", "e">>, <<"w", "a", "s">>,
    <<"w", "e", "r", "e">>, <<"t", "o">>, <<"i", "n">>, <<"o", "f">>, <<"f", "o", "r">>,
    <<"o", "n">>, <<"w", "i", "t", "h">>, <<"f", "r", "o", "m">>, <<"a", "s">>,
    <<"a", "t">>, <<"i", "t">>, <<"t", "h", "i", "s">>, <<"t", "h", "a", "t">>,
    <<"s", "o">>, <<"w", "h", "a", "t">>, <<"y", "o", "u">>, <<"i">>, <<"m", "e">>,
    <<"m", "y">>, <<"h", "e">>, <<"s", "h", "e">>, <<"w", "e">>, <<"t", "h", "e", "y">>,
    <<"o", "u", "r">>, <<"t", "h", "e", "i", "r">>, <<"y", "o", "u", "r">>, <<"b", "e">>,
    <<"b", "e", "e", "n">>, <<"a", "b", "o", "u", "t">>, <<"j", "u", "s", "t">>,
    <<"c", "a", "n">>, <<"c", "a", "n", "t">>, <<"w", "o", "u", "l", "d">>,
    <<"w", "i", "l", "l">>, <<"g", "o">>, <<"u", "p">>, <<"d", "o", "w", "n">>,
    <<"o", "u", "t">>, <<"o", "f", "f">>, <<"t", "o", "o">>, <<"v", "e", "r", "y">>,
    <<"h", "e", "r", "e">>, <<"t", "h", "e", "r", "e">>, <<"w", "h", "o">>,
    <<"h", "o", "w">>, <<"w", "h", "e", "n">>, <<"w", "h", "y">>, <<"l", "i", "k", "e">>,
    <<"v", "i", "d", "e", "o">>, <<"c", "o", "n", "t", "e", "n", "t">>,
    <<"q", "u", "a", "l", "i", "t", "y">>}

\* The character class [.,!?'"()/] of processWordCloudData
Punctuation == {".", ",", "!", "?", "'", "\"", "(", ")", "/"}

\* String.prototype.toLowerCase on one character, and on a string
LowerChar(c) ==
    IF \E i \in 1..Len(Upper) : Upper[i] = c
    THEN Lower[CHOOSE i \in 1..Len(Upper) : Upper[i] = c]
    ELSE c
LowerCased(str) == [i \in 1..Len(str) |-> LowerChar(str[i])]

\* .replace(/[.,!?'"()/]/g, '')
IsLetter(c) == c \notin Punctuation
StripPunctuation(str) == SelectSeq(str, IsLetter)

\* Names every object inherits from Object.prototype that a lower-cased token
\* or a category can spell: reading them on a fresh {} yields a function.
ConstructorWord == <<"c", "o", "n", "s", "t", "r", "u", "c", "t", "o", "r">>
InheritedTopic(topic) == topic = "constructor"
InheritedWords == {ConstructorWord}

\* The words "w00", "w01", ...: distinct tokens of three characters
Word(n) == <<"w", Digits[(n \div 10) + 1], Digits[(n % 10) + 1]>>

\* A text is absent (undefined) or a string, given as the sequence of its
\* parts between white space.
Text(present, words) == [present |-> present, words |-> words]
NoText == Text(FALSE, <<>>)
EmptyText == Text(TRUE, <<>>)
\* "Great great! The ok"
PraiseText == Text(TRUE, <<<<"G", "r", "e", "a", "t">>, <<"g", "r", "e", "a", "t", "!">>,
                           <<"T", "h", "e">>, <<"o", "k">>>>)
\* "I'm (it's) w01 great... !!!"
QuoteText == Text(TRUE, <<<<"I", "'", "m">>, <<"(", "i", "t", "'", "s", ")">>, Word(1),
                          <<"g", "r", "e", "a", "t", ".", ".", ".">>, <<"!", "!", "!">>>>)
\* "constructor great"
ConstructorText == Text(TRUE, <<ConstructorWord, <<"g", "r", "e", "a", "t">>>>)
\* "w01 w02 ... w31": one more distinct token than the ranking keeps
LongText == Text(TRUE, [n \in 1..(TokenCap + 1) |-> Word(n)])
Texts == {NoText, EmptyText, PraiseText, QuoteText, ConstructorText, LongText}

\* The emojis of a record: absent, or a list of symbols.
Emojis(present, list) == [present |-> present, list |-> list]
NoEmojis == Emojis(FALSE, <<>>)
Symbols == <<"grin", "heart", "fire", "clap", "cry", "star", "wave">>
FewEmojis == Emojis(TRUE, <<"heart", "grin", "heart">>)
ManyEmojis == Emojis(TRUE, [n \in 1..(EmojiCap + 1) |-> Symbols[n]])
EmojiLists == {NoEmojis, Emojis(TRUE, <<>>), FewEmojis, ManyEmojis}

\* A category as the service returns it; "" stands for an absent one.
RawTopics == {"", "Audio", "constructor"}

\* One entry of analysisResults.comments with every field the popup reads.
FullPrediction(sentiment, timestamp, topic, text, emojis) ==
    [id |-> 0, sentiment |-> sentiment, timestamp |-> timestamp, sentimentStrength |-> "",
     topic |-> topic, text |-> text, emojis |-> emojis]
AggPredictions ==
    {FullPrediction(x, NumTs(10), "", PraiseText, NoEmojis) : x \in RawSentiments}
    \cup {FullPrediction("NEGATIVE", NumTs(10), t, PraiseText, NoEmojis) : t \in RawTopics}
    \cup {FullPrediction("positive", NumTs(45), "", w, FewEmojis) : w \in Texts}
    \cup {FullPrediction("", NoTs, "Audio", QuoteText, e) : e \in EmojiLists}
AggPredictionLists == UNION {[1..n -> AggPredictions] : n \in 0..MaxRows}

\* The object updateCommentsData builds for one prediction, with text: p.text,
\* topic: p.topic || 'General' and emojis: p.emojis || []
CommentOf(p) ==
    [id |-> NormalizeComment(p).id,
     sentiment |-> NormalizeComment(p).sentiment,
     timestamp |-> NormalizeComment(p).timestamp,
     strength |-> NormalizeComment(p).strength,
     topic |-> IF p.topic = "" THEN "General" ELSE p.topic,
     text |-> p.text,
     emojis |-> IF p.emojis.present THEN p.emojis.list ELSE <<>>]
CommentsOf(predictions) == [k \in 1..Len(predictions) |-> CommentOf(predictions[k])]

\* A row of the category matrix: { topic, positive: 0, neutral: 0, negative: 0 };
\* nan holds the keys that undefined++ has set to NaN.
TopicRow(topic) == [topic |-> topic, positive |-> 0, neutral |-> 0, negative |-> 0, nan |-> {}]

\* topics[c.topic][c.sentiment]++
Tallied(row, sentiment) ==
    IF sentiment \in SentimentKeys
    THEN [row EXCEPT ![sentiment] = @ + 1]
    ELSE [row EXCEPT !.nan = @ \cup {sentiment}]

\* commentsData.forEach(c => { if (!topics[c.topic]) topics[c.topic] = {...};
\* topics[c.topic][c.sentiment]++ }) on the rows in the order they were added
RECURSIVE FillTopics(_, _)
FillTopics(data, topics) ==
    IF data = <<>> THEN topics
    ELSE LET c == Head(data)
             own == {i \in 1..Len(topics) : topics[i].topic = c.topic}
             added == IF own = {} /\ ~InheritedTopic(c.topic)
                      THEN Append(topics, TopicRow(c.topic))
                      ELSE topics
             at == {i \in 1..Len(added) : added[i].topic = c.topic}
         IN FillTopics(Tail(data),
                [i \in 1..Len(added) |-> IF i \in at THEN Tallied(added[i], c.sentiment)
                                         ELSE added[i]])

\* processTopicSentimentData: Object.values(topics)
processTopicSentimentData(commentsData) == FillTopics(commentsData, <<>>)

\* An entry of a tally, [key, count]: the count is a number, or, for a key the
\* object inherits, the text of the inherited function followed by one "1" for
\* each occurrence.
Entry(key, number, n) == [key |-> key, number |-> number, n |-> n]

\* The elements of a set of positions in ascending order
Ascending(S) ==
    [k \in 1..Cardinality(S) |-> CHOOSE i \in S : Cardinality({j \in S : j < i}) = k - 1]

\* map[k] = (map[k] || 0) + 1 for each k of a list: one entry for each distinct
\* key, in the order of the first occurrences, counting its occurrences
Tally(keys, inherited) ==
    LET first == Ascending({i \in 1..Len(keys) : \A j \in 1..(i - 1) : keys[j] # keys[i]})
    IN [k \in 1..Len(first) |->
           Entry(keys[first[k]], keys[first[k]] \notin inherited,
                 Cardinality({j \in 1..Len(keys) : keys[j] = keys[first[k]]}))]

\* The comparator ([, a], [, b]) => b - a puts x before y: b - a is NaN, which
\* sort takes for 0, when either count is no number.
Before(x, y) == x.number /\ y.number /\ x.n > y.n

\* Array.prototype.sort with that comparator: stable, descending by count
RECURSIVE InsertSorted(_, _)
InsertSorted(sorted, x) ==
    IF sorted = <<>> THEN <<x>>
    ELSE IF Before(x, Head(sorted)) THEN <<x>> \o sorted
         ELSE <<Head(sorted)>> \o InsertSorted(Tail(sorted), x)
RECURSIVE SortDescending(_, _)
SortDescending(entries, sorted) ==
    IF entries = <<>> THEN sorted
    ELSE SortDescending(Tail(entries), InsertSorted(sorted, Head(entries)))

\* commentsData.forEach(c => c.emojis.forEach(e => ...)): all symbols in order
RECURSIVE AllEmojis(_)
AllEmojis(data) == IF data = <<>> THEN <<>> ELSE Head(data).emojis \o AllEmojis(Tail(data))

\* processEmojiData: Object.entries(map).sort(...).slice(0, 6)
processEmojiData(commentsData) ==
    Slice(SortDescending(Tally(AllEmojis(commentsData), {}), <<>>), EmojiCap)

\* c.text.toLowerCase() throws a TypeError when a record has no text.
TextMissing(commentsData) == \E i \in 1..Len(commentsData) : ~commentsData[i].text.present

\* commentsData.map(c => c.text.toLowerCase().replace(...)).join(' ').split(/\s+/)
RECURSIVE SplitAll(_)
SplitAll(data) ==
    IF data = <<>> THEN <<>>
    ELSE [k \in 1..Len(Head(data).text.words) |->
             StripPunctuation(LowerCased(Head(data).text.words[k]))] \o SplitAll(Tail(data))

\* A filter that keeps stopwords.
LongerThanTwo(w) == Len(w) > 2

\* w.length > 2 && !stopWords.has(w)
Eligible(w) == Len(w) > 2 /\ w \notin stopWords

\* A number as a fraction, or NaN.
Number(nan, num, den) == [nan |-> nan, num |-> num, den |-> den]
NaN == Number(TRUE, 0, 1)

\* const scale = count => max === min ? 2 : 1 + (count - min) / (max - min) * 4
scale(count, min, max) ==
    IF max.number = min.number /\ max.n = min.n
    THEN Number(FALSE, 2, 1)
    ELSE IF count.number /\ min.number /\ max.number
         THEN Number(FALSE, (max.n - min.n) + 4 * (count.n - min.n), max.n - min.n)
         ELSE NaN

\* One drawing of Math.random() for each surfaced token: whether it is above 0.7
RandomStreams ==
    {[k \in 1..TokenCap |-> FALSE], [k \in 1..TokenCap |-> TRUE], [k \in 1..TokenCap |-> k % 2 = 0]}

\* An entry whose size follows the drawing as well.
WordEntrySizedByDraw(entry, min, max, above) ==
    [word |-> entry.key,
     size |-> IF above THEN Number(FALSE, 5, 1) ELSE scale(entry, min, max),
     rotation |-> IF above THEN 0 - 90 ELSE 0]

\* ({ word, size: scale(count), rotation: Math.random() > 0.7 ? -90 : 0 })
WordEntry(entry, min, max, above) ==
    [word |-> entry.key, size |-> scale(entry, min, max), rotation |-> IF above THEN 0 - 90 ELSE 0]

\* processWordCloudData: [] when a text is missing, else the 30 most frequent
\* eligible tokens with their sizes; max and min are those of all eligible ones
processWordCloudData(commentsData, random) ==
    IF TextMissing(commentsData) THEN <<>>
    ELSE LET sorted == SortDescending(
                 Tally(SelectSeq(SplitAll(commentsData), Eligible), InheritedWords), <<>>)
             max == IF sorted # <<>> THEN sorted[1] ELSE Entry(<<>>, TRUE, 1)
             min == IF sorted # <<>> THEN sorted[Len(sorted)] ELSE Entry(<<>>, TRUE, 1)
             top == Slice(sorted, TokenCap)
         IN [k \in 1..Len(top) |-> WordEntry(top[k], min, max, random[k])]

\* What one rendering of the charts computes from the record set.
Aggregates(commentsData, random) ==
    [counts |-> getSentimentCounts(commentsData),
     timeline |-> processTimelineData(commentsData),
     topics |-> processTopicSentimentData(commentsData),
     emojis |-> processEmojiData(commentsData),
     words |-> processWordCloudData(commentsData, random)]

\* The popup holds a record set loaded from storage.
AggInit ==
    /\ impl = "background"
    /\ pc = "aggregate"
    /\ total = 0
    /\ script = <<>>
    /\ fw = IdleFetch
    /\ storage = EmptyStorage
    /\ popup = IdlePopup
    /\ runs = IdleRuns
    /\ content = IdleContent
    /\ BackgroundIdle
    /\ \E predictions \in AggPredictionLists :
          engine = [commentsData |-> CommentsOf(predictions), out |-> <<>>]

\* renderDashboard draws the charts: each aggregation function runs once on
\* commentsData, which none of them assigns.
RunAggregations ==
    /\ pc = "aggregate"
    /\ Len(engine.out) < 2
    /\ \E random \in RandomStreams :
          engine' = [engine EXCEPT !.out = Append(@, Aggregates(engine.commentsData, random))]
    /\ UNCHANGED <<impl, script, fw, pc, total, popup, runs, content, fac, fr, responses,
                   progress, updates, storage, reqLog, nextLog, rReqLog, served, repliesOf,
                   failedParents, nextId, failures>>

AggNext == RunAggregations

AggSpec == AggInit /\ [][AggNext]_vars

(***************************************************************************)
(* Claims about the aggregation functions                                  *)
(***************************************************************************)
\* The charts have been computed at least once.
Aggregated == pc = "aggregate" /\ engine.out # <<>>

\* The categories occurring in a record set, and the records of a category
Categories(data) == {data[i].topic : i \in 1..Len(data)}
OfTopic(data, topic) == {i \in 1..Len(data) : data[i].topic = topic}

\* C21: processTopicSentimentData returns exactly one row for each category
\* occurring in the record set and none for any other category; each row's
\* positive, neutral and negative tallies count the records of that category
\* with that sentiment and sum to the number of records of that category.
C21_OneRowPerCategory ==
    Aggregated =>
        LET data == engine.commentsData
            rows == engine.out[1].topics
        IN /\ {rows[i].topic : i \in 1..Len(rows)} = Categories(data)
           /\ \A i, j \in 1..Len(rows) : rows[i].topic = rows[j].topic => i = j
           /\ \A i \in 1..Len(rows) :
                 /\ \A x \in SentimentKeys :
                       rows[i][x] = Cardinality({k \in OfTopic(data, rows[i].topic) :
                                                    data[k].sentiment = x})
                 /\ RowTotal(rows[i]) = Cardinality(OfTopic(data, rows[i].topic))

\* The same for record sets whose sentiments are recognized and whose
\* categories are no inherited property name
RecognizedOnlyOneRowPerCategory ==
    (\A i \in 1..Len(engine.commentsData) :
        /\ engine.commentsData[i].sentiment \in SentimentKeys
        /\ ~InheritedTopic(engine.commentsData[i].topic))
    => C21_OneRowPerCategory

\* The tokens the token ranking of a rendering surfaces
Surfaced(k) == {engine.out[k].words[i].word : i \in 1..Len(engine.out[k].words)}

\* C22: no entry of the token ranking returned by processWordCloudData has
\* length <= 2, measured after lower-casing and stripping the punctuation
\* set, and none is a member of the stopword set.
C22_NoShortTokenNoStopword ==
    Aggregated =>
        \A k \in 1..Len(engine.out) : \A w \in Surfaced(k) :
            /\ w = StripPunctuation(LowerCased(w))
            /\ ~(Len(w) <= 2)
            /\ w \notin stopWords

\* A ranking was computed from texts holding a stopword in capitals, a short
\* token, a token that is short only after stripping, and surfaced tokens.
C22_Witness ==
    /\ Aggregated
    /\ Surfaced(1) # {}
    /\ \E i, j \in 1..Len(engine.commentsData) :
          /\ engine.commentsData[i].text = PraiseText
          /\ engine.commentsData[j].text = QuoteText

\* The distinct symbols of a record set
DistinctEmojis(data) == UNION {{data[i].emojis[k] : k \in 1..Len(data[i].emojis)} : i \in 1..Len(data)}

\* The tokens of one text, lower-cased and stripped, and the distinct tokens
\* of a record set that are longer than two characters and no stopword
TokensOf(text) == {StripPunctuation(LowerCased(text.words[k])) : k \in 1..Len(text.words)}
DistinctTokens(data) ==
    {w \in UNION {TokensOf(data[i].text) : i \in 1..Len(data)} : Len(w) > 2 /\ w \notin stopWords}

\* C23: the symbol ranking returned by processEmojiData has at most 6
\* entries and the token ranking returned by processWordCloudData at most 30;
\* each has exactly min(cap, number of distinct eligible items) entries.
C23_RankingSizes ==
    Aggregated =>
        \A k \in 1..Len(engine.out) :
            LET data == engine.commentsData
                out == engine.out[k]
            IN /\ Len(out.emojis) <= 6
               /\ Len(out.words) <= 30
               /\ Len(out.emojis) = Min(6, Cardinality(DistinctEmojis(data)))
               /\ Len(out.words) = Min(30, Cardinality(DistinctTokens(data)))

\* The same for record sets in which every record has a text
AllTextsPresentRankingSizes == ~TextMissing(engine.commentsData) => C23_RankingSizes

\* Rankings were cut: more than 6 distinct symbols and more than 30 tokens
RankingsCut ==
    /\ Aggregated
    /\ Cardinality(DistinctEmojis(engine.commentsData)) > EmojiCap
    /\ Cardinality(DistinctTokens(engine.commentsData)) > TokenCap
    /\ Len(engine.out[1].words) = TokenCap

\* How often token w occurs among the tokens all, the frequencies of the
\* eligible tokens of a record set, and the largest and smallest of a set
Frequency(all, w) == Cardinality({k \in 1..Len(all) : all[k] = w})
Frequencies(data) ==
    LET all == SplitAll(data) IN {Frequency(all, w) : w \in DistinctTokens(data)}
SetMax(S) == CHOOSE n \in S : \A m \in S : m <= n
SetMin(S) == CHOOSE n \in S : \A m \in S : n <= m

\* C24: every token surfaced by processWordCloudData has size 1 when the
\* maximum and minimum token frequencies are equal, and otherwise size
\* 1 + 4 * (count - min) / (max - min); every size lies in [1, 5] and the
\* most frequent token has size 5.
C24_SizeInterpolated ==
    Aggregated =>
        \A k \in 1..Len(engine.out) :
            engine.out[k].words # <<>> =>
                LET all == SplitAll(engine.commentsData)
                    frequencies == Frequencies(engine.commentsData)
                    max == SetMax(frequencies)
                    min == SetMin(frequencies)
                IN \A i \in 1..Len(engine.out[k].words) :
                      LET entry == engine.out[k].words[i]
                          count == Frequency(all, entry.word)
                      IN /\ ~entry.size.nan
                         /\ IF max = min
                            THEN entry.size.num = entry.size.den
                            ELSE entry.size.num * (max - min)
                                    = ((max - min) + 4 * (count - min)) * entry.size.den
                         /\ entry.size.den <= entry.size.num
                         /\ entry.size.num <= 5 * entry.size.den
                         /\ count = max => entry.size.num = 5 * entry.size.den

\* The interpolation alone: the claim where tokens differ in frequency and
\* none is an inherited property name
DifferingFrequenciesInterpolated ==
    (/\ ~TextMissing(engine.commentsData)
     /\ DistinctTokens(engine.commentsData) # {}
     /\ ConstructorWord \notin DistinctTokens(engine.commentsData)
     /\ Cardinality(Frequencies(engine.commentsData)) > 1)
    => C24_SizeInterpolated

\* Tokens of different frequency were sized
SizesDiffer ==
    /\ Aggregated
    /\ \E i, j \in 1..Len(engine.out[1].words) :
          engine.out[1].words[i].size # engine.out[1].words[j].size

\* A token ranking without its rotation flags
Undecorated(words) == [i \in 1..Len(words) |-> [word |-> words[i].word, size |-> words[i].size]]

\* The charts have been computed twice from the same record set.
AggregatedTwice == pc = "aggregate" /\ Len(engine.out) = 2

MostFrequentFirst(items, eligible, all) ==
    /\ \A i, j \in 1..Len(items) :
          i < j => Frequency(all, items[i]) >= Frequency(all, items[j])
    /\ \A w \in eligible \ {items[i] : i \in 1..Len(items)} :
          \A i \in 1..Len(items) : Frequency(all, w) <= Frequency(all, items[i])

\* C32: the token and symbol rankings are sorted by non-increasing frequency
\* and contain the most frequent items: the count attached to each surfaced
\* symbol is its number of occurrences across all records' symbol sequences,
\* and no eligible item left out of a ranking has a strictly greater
\* frequency than an item included in it.
C32_RankingsMostFrequent ==
    Aggregated =>
        LET data == engine.commentsData
            symbols == AllEmojis(data)
            tokens == IF TextMissing(data) THEN <<>> ELSE SplitAll(data)
            eligible == DistinctTokens(data)
        IN \A k \in 1..Len(engine.out) :
              LET emojis == engine.out[k].emojis
                  words == engine.out[k].words
              IN /\ \A i \in 1..Len(emojis) :
                       emojis[i].number /\ emojis[i].n = Frequency(symbols, emojis[i].key)
                 /\ MostFrequentFirst([i \in 1..Len(emojis) |-> emojis[i].key],
                                      DistinctEmojis(data), symbols)
                 /\ MostFrequentFirst([i \in 1..Len(words) |-> words[i].word],
                                      eligible, tokens)

\* The same for record sets none of whose tokens is an inherited property
\* name
OwnTokensRankingsMostFrequent ==
    ConstructorWord \notin DistinctTokens(engine.commentsData) => C32_RankingsMostFrequent

\* Both rankings hold items of different frequencies.
RankedByFrequency ==
    /\ Aggregated
    /\ ConstructorWord \notin DistinctTokens(engine.commentsData)
    /\ \E i, j \in 1..Len(engine.out[1].emojis) :
          engine.out[1].emojis[i].n > engine.out[1].emojis[j].n
    /\ Cardinality(Frequencies(engine.commentsData)) > 1
    /\ Len(engine.out[1].words) > 1

(***************************************************************************)
(* The popup with its sentiment cards and the detailed breakdown: record   *)
(* sets with many records of one sentiment, clicks on the cards and on the *)
(* close button, and results stored anew while the popup is open.          *)
(***************************************************************************)
\* records of strength strong or weak of the selected sentiment
MaxFiltered == 16

\* An entry of analysisResults.comments with a sentimentStrength
StrengthPrediction(sentiment, strength) ==
    [Prediction(sentiment, NoTs) EXCEPT !.sentimentStrength = strength]

Repeat(x, n) == [k \in 1..n |-> x]

\* The service gives every comment its own id: here its place in the list.
Numbered(predictions) == [k \in 1..Len(predictions) |-> [predictions[k] EXCEPT !.id = k]]

\* Records that follow the strong and weak positive ones: none, a positive
\* one of another strength, or a negative one and one without any field
SelectExtras ==
    {<<>>,
     <<StrengthPrediction("positive", "moderate")>>,
     <<StrengthPrediction("NEGATIVE", "STRONG"), StrengthPrediction("", "")>>}
\* Record sets with no, one or three strong positive records followed by weak ones
StrongCounts == {0, 1, 3}
SelectResults ==
    UNION {{Numbered(Repeat(StrengthPrediction("positive", "strong"), strong)
               \o Repeat(StrengthPrediction("positive", "weak"), weak) \o extras) :
                   weak \in 0..(MaxFiltered - strong), extras \in SelectExtras} :
           strong \in StrongCounts}
\* What a later run stores: two comments, or the result for a video without
\* comments
LaterResults ==
    {Numbered(<<StrengthPrediction("negative", "weak"), StrengthPrediction("positive", "")>>),
     <<>>}

SelectInit ==
    /\ impl = "background"
    /\ pc = "popup"
    /\ total = 0
    /\ script = <<>>
    /\ fw = IdleFetch
    /\ \E results \in SelectResults :
          /\ storage = [Storage(TRUE, "K") EXCEPT !.analysisResults = results,
                                                  !.saved = results # <<>>]
    /\ RunIdle

\* A click that selects neutral whichever card it hits.
NeutralSelected(selectedSentiment, type) == "neutral"

\* selectedSentiment = selectedSentiment === s.type ? null : s.type
Selected(selectedSentiment, type) == IF selectedSentiment = type THEN "" ELSE type

\* card.onclick of the card of one sentiment: the selection changes and the
\* dashboard is rendered again.
ClickCardOf(type) ==
    /\ pc = "popup"
    /\ popup.display = "dashboard"
    /\ popup' = renderDashboard(
                    [popup EXCEPT !.selectedSentiment = Selected(@, type)], popup.commentsData)
    /\ UNCHANGED <<impl, script, fw, pc, total, runs, content, engine, fac, fr, responses,
                   progress, updates, storage, reqLog, nextLog, rReqLog, served, repliesOf,
                   failedParents, nextId, failures>>

ClickCard == \E type \in SentimentKeys : ClickCardOf(type)

\* The click listener of #close-breakdown, which exists while the container
\* holds a breakdown card: the selection and the container are cleared and
\* the dashboard is rendered again.
ClickClose ==
    /\ pc = "popup"
    /\ popup.breakdown.shown
    /\ popup' = renderDashboard(
                    [popup EXCEPT !.selectedSentiment = "", !.breakdown = NoBreakdown],
                    popup.commentsData)
    /\ UNCHANGED <<impl, script, fw, pc, total, runs, content, engine, fac, fr, responses,
                   progress, updates, storage, reqLog, nextLog, rReqLog, served, repliesOf,
                   failedParents, nextId, failures>>

\* The service worker stores the results of a later run (storageSet).
ResultsReplaced ==
    /\ pc = "popup"
    /\ storage.analysisResults \notin LaterResults
    /\ \E results \in LaterResults :
          storage' = [storage EXCEPT !.analysisResults = results, !.saved = TRUE]
    /\ UNCHANGED <<impl, script, fw, pc, total, popup, runs, content, engine, fac, fr,
                   responses, progress, updates, reqLog, nextLog, rReqLog, served, repliesOf,
                   failedParents, nextId, failures>>

SelectNext == OnUpdateUI \/ StorageGetCallback \/ ClickCard \/ ClickClose \/ ResultsReplaced

SelectSpec == SelectInit /\ [][SelectNext]_vars

(***************************************************************************)
(* Claims about the selection and the breakdown                            *)
(***************************************************************************)
\* A sentiment is selected and its breakdown is shown.
BreakdownOfSelection ==
    /\ pc = "popup"
    /\ popup.selectedSentiment # ""
    /\ popup.breakdown.shown

\* The records of the selected sentiment that have a given strength
StrengthCount(strength) ==
    Cardinality({i \in 1..Len(popup.commentsData) :
                    /\ popup.commentsData[i].sentiment = popup.selectedSentiment
                    /\ popup.commentsData[i].strength = strength})

\* p tenths is num / den * 100 to one decimal: no tenth is closer.
ToOneDecimal(p, num, den) ==
    /\ 2 * (p * den - 1000 * num) <= den
    /\ 2 * (1000 * num - p * den) <= den

\* The percentages are the quotients to one decimal, 75.0 and 25.0 for 3
\* strong and 1 weak records, and 0.0 and 0.0 for none.
PercentagesRounded ==
    BreakdownOfSelection =>
        LET strongCount == StrengthCount("strong")
            weakCount == StrengthCount("weak")
            divisor == IF strongCount + weakCount >= 1 THEN strongCount + weakCount ELSE 1
        IN /\ ToOneDecimal(popup.breakdown.strongPercent, strongCount, divisor)
           /\ ToOneDecimal(popup.breakdown.weakPercent, weakCount, divisor)
           /\ (strongCount = 3 /\ weakCount = 1) =>
                 popup.breakdown.strongPercent = 750 /\ popup.breakdown.weakPercent = 250
           /\ strongCount + weakCount = 0 =>
                 popup.breakdown.strongPercent = 0 /\ popup.breakdown.weakPercent = 0

\* C26: for the selected sentiment the strong and weak percentages of the
\* breakdown are strongCount / max(1, strongCount + weakCount) * 100 and
\* weakCount / max(1, strongCount + weakCount) * 100 to one decimal, 75.0 and
\* 25.0 for 3 strong and 1 weak records, 0.0 and 0.0 for no records, and
\* they sum to 100 whenever strongCount + weakCount > 0.
C26_StrengthPercentages ==
    /\ PercentagesRounded
    /\ BreakdownOfSelection =>
          (StrengthCount("strong") + StrengthCount("weak") > 0 =>
              popup.breakdown.strongPercent + popup.breakdown.weakPercent = 1000)

\* Breakdowns of 3 strong and 1 weak, and of records that are neither
ThreeStrongOneWeak ==
    BreakdownOfSelection /\ StrengthCount("strong") = 3 /\ StrengthCount("weak") = 1
NeitherStrongNorWeak ==
    /\ BreakdownOfSelection
    /\ popup.breakdown.filtered > 0
    /\ StrengthCount("strong") + StrengthCount("weak") = 0

\* C30: the popup's selection always holds none or exactly one of positive,
\* neutral, negative: clicking the card of the selected sentiment sets it to
\* none, clicking any other card sets it to that card's sentiment, the
\* breakdown's close button sets it to none, and loading new data on
\* updateUI leaves it unchanged.
C30_SelectionNoneOrOne ==
    /\ [](popup.selectedSentiment \in {""} \cup SentimentKeys)
    /\ [][/\ \A type \in SentimentKeys :
                ClickCardOf(type) =>
                    /\ popup.selectedSentiment = type => popup'.selectedSentiment = ""
                    /\ popup.selectedSentiment # type => popup'.selectedSentiment = type
          /\ ClickClose => popup'.selectedSentiment = ""
          /\ (OnUpdateUI \/ StorageGetCallback) =>
                popup'.selectedSentiment = popup.selectedSentiment]_vars

\* The results of a later run are loaded and the negative card was clicked
\* twice: nothing is selected and its breakdown is still in the container.
C30_Witness ==
    /\ pc = "popup"
    /\ popup.selectedSentiment = ""
    /\ popup.breakdown.shown
    /\ popup.breakdown.sentiment = "negative"
    /\ popup.breakdown.filtered = 1
    /\ popup.handled = "results"
    /\ storage.analysisResults \in LaterResults
    /\ Len(popup.commentsData) = 2

\* The places in the record set of the records of the selected sentiment
\* that have a given strength
ClassOf(strength) ==
    {i \in 1..Len(popup.commentsData) :
        /\ popup.commentsData[i].sentiment = popup.selectedSentiment
        /\ popup.commentsData[i].strength = strength}

\* examples are the first min(5, class size) records of a class, in the
\* order of the record set: the k-th example is the record at the k-th
\* smallest place of the class.
FirstOfClass(examples, class) ==
    /\ Len(examples) = Min(5, Cardinality(class))
    /\ \A k \in 1..Len(examples) :
          \E i \in class :
             /\ Cardinality({j \in class : j <= i}) = k
             /\ examples[k] = popup.commentsData[i]

\* C31: for a selected sentiment s the breakdown is computed from exactly
\* the records of the record set whose sentiment is s, split into those of
\* strength strong and those of strength weak, and the examples of each
\* class are its first min(5, class size) records in the order of the
\* record set.
C31_BreakdownFromSelection ==
    BreakdownOfSelection =>
        /\ popup.breakdown.sentiment = popup.selectedSentiment
        /\ popup.breakdown.filtered =
              Cardinality({i \in 1..Len(popup.commentsData) :
                              popup.commentsData[i].sentiment = popup.selectedSentiment})
        /\ FirstOfClass(popup.breakdown.strongTop5, ClassOf("strong"))
        /\ FirstOfClass(popup.breakdown.weakTop5, ClassOf("weak"))

\* A breakdown of three strong records and more than five weak ones, among
\* records of another sentiment and of another strength
C31_Witness ==
    /\ BreakdownOfSelection
    /\ Cardinality(ClassOf("strong")) = 3
    /\ Cardinality(ClassOf("weak")) > 5
    /\ Len(popup.breakdown.weakTop5) = 5
    /\ popup.breakdown.weakTop5[1].id = 4
    /\ popup.breakdown.filtered < Len(popup.commentsData)

\* The page shows the dashboard computed from the record set.
RenderedFrom(page) ==
    /\ page.display = "dashboard"
    /\ page.counts = getSentimentCounts(page.commentsData)
    /\ page.timeline = processTimelineData(page.commentsData)

\* C34: after the popup handles an updateUI notification, its in-memory
\* record set equals the normalized comments of the analysisResults
\* currently in storage and the dashboard is re-rendered from it, including
\* when the stored result has zero comments (the record set then becomes
\* empty rather than keeping the records of an earlier result).
C34_RecordSetFollowsStorage ==
    [][StorageGetCallback =>
          /\ popup'.commentsData = NormalizeAll(storage.analysisResults)
          /\ RenderedFrom(popup')]_vars

\* The same for stored results that hold at least one comment
NonEmptyResultsLoaded ==
    [][(StorageGetCallback /\ storage.analysisResults # <<>>) =>
          /\ popup'.commentsData = NormalizeAll(storage.analysisResults)
          /\ RenderedFrom(popup')]_vars

\* The results of a later run with two comments were loaded over earlier
\* ones.
LaterResultsLoaded ==
    /\ pc = "popup"
    /\ popup.received = 2
    /\ popup.pending = <<>>
    /\ Len(storage.analysisResults) = 2
    /\ popup.commentsData = NormalizeAll(storage.analysisResults)
    /\ storage.analysisResults \in LaterResults

\* A result without comments was stored and both notifications were handled:
\* the popup still holds the records of the earlier result.
EarlierRecordsKept ==
    /\ pc = "popup"
    /\ popup.received = 2
    /\ popup.pending = <<>>
    /\ storage.analysisResults = <<>>
    /\ popup.commentsData # <<>>

\* The breakdown in the container is the one of the selected sentiment,
\* computed from the record set the popup holds.
BreakdownCurrent ==
    /\ popup.breakdown.sentiment = popup.selectedSentiment
    /\ popup.breakdown.filtered =
          Cardinality({i \in 1..Len(popup.commentsData) :
                          popup.commentsData[i].sentiment = popup.selectedSentiment})
    /\ FirstOfClass(popup.breakdown.strongTop5, ClassOf("strong"))
    /\ FirstOfClass(popup.breakdown.weakTop5, ClassOf("weak"))
    /\ LET strongCount == Cardinality(ClassOf("strong"))
           weakCount == Cardinality(ClassOf("weak"))
           divisor == IF strongCount + weakCount >= 1 THEN strongCount + weakCount ELSE 1
       IN /\ ToOneDecimal(popup.breakdown.strongPercent, strongCount, divisor)
          /\ ToOneDecimal(popup.breakdown.weakPercent, weakCount, divisor)

\* C35: after any sequence of sentiment-card clicks, close-button clicks and
\* data updates, once the render triggered by the last event has finished, a
\* detailed breakdown is displayed if and only if a sentiment is selected,
\* and the displayed breakdown is the one for the currently selected
\* sentiment computed from the current record set.
C35_BreakdownIffSelected ==
    pc = "popup" =>
        /\ popup.breakdown.shown <=> popup.selectedSentiment # ""
        /\ popup.breakdown.shown => BreakdownCurrent

\* One direction alone: while a sentiment is selected its breakdown is
\* displayed and current.
SelectedShownAndCurrent ==
    (pc = "popup" /\ popup.selectedSentiment # "") =>
        popup.breakdown.shown /\ BreakdownCurrent

\* The card of the selected sentiment was clicked: nothing is selected and
\* the container still holds the breakdown.
DeselectedStillShown ==
    /\ pc = "popup"
    /\ popup.selectedSentiment = ""
    /\ popup.breakdown.shown
    /\ popup.breakdown.sentiment = "positive"
    /\ popup.received = 1

(***************************************************************************)
(* The content script: the initial detection, URL changes of the           *)
(* single-page application seen by the MutationObserver, and the           *)
(* notifyBackground calls, each suspended until its message is answered.   *)
(***************************************************************************)
\* URL changes of the page
MaxChanges == 3

\* The pages of the site: one without a video, the watch pages of two videos
\* and the embed page of the first.
PageUrls == {"/", "/watch?v=X", "/watch?v=Y", "/embed/X"}

\* getVideoId: the v parameter, else the id of an embed or short URL, else null
getVideoId(url) ==
    IF url \in {"/watch?v=X", "/embed/X"} THEN "X"
    ELSE IF url = "/watch?v=Y" THEN "Y" ELSE ""

\* A message handed to chrome.runtime.sendMessage
Message(action, videoId) == [action |-> action, videoId |-> videoId]

\* A notifyBackground call suspended at await safeSendMessage(...): at the
\* first one (videoIdDetected) or at the second (fetchComments)
Call(videoId, at) == [videoId |-> videoId, at |-> at]

\* notifyBackground(videoId) up to its first await: nothing for no id or for
\* the id seen last; else lastVideoId = videoId and videoIdDetected is sent.
notifyBackground(c, videoId) ==
    IF videoId = "" \/ videoId = c.lastVideoId THEN c
    ELSE [c EXCEPT !.lastVideoId = videoId,
                   !.sent = Append(@, Message("videoIdDetected", videoId)),
                   !.calls = Append(@, Call(videoId, "idResp"))]

\* The script has run on a freshly loaded page: lastUrl = location.href and
\* the initial detection.
ContentInit ==
    /\ impl = "background"
    /\ pc = "content"
    /\ total = 0
    /\ script = <<>>
    /\ fw = IdleFetch
    /\ storage = EmptyStorage
    /\ popup = IdlePopup
    /\ runs = IdleRuns
    /\ engine = IdleEngine
    /\ BackgroundIdle
    /\ \E url \in PageUrls :
          content = notifyBackground([IdleContent EXCEPT !.url = url, !.lastUrl = url],
                                     getVideoId(url))

\* The single-page application navigates: location.href changes.
UrlChange ==
    /\ pc = "content"
    /\ content.changes < MaxChanges
    /\ \E url \in PageUrls \ {content.url} :
          content' = [content EXCEPT !.url = url, !.changes = @ + 1]
    /\ UNCHANGED <<impl, script, fw, pc, total, popup, runs, engine, fac, fr, responses,
                   progress, updates, storage, reqLog, nextLog, rReqLog, served, repliesOf,
                   failedParents, nextId, failures>>

\* The MutationObserver callback finds location.href changed.
UrlChangeDetected ==
    /\ pc = "content"
    /\ content.url # content.lastUrl
    /\ content' = notifyBackground([content EXCEPT !.lastUrl = content.url],
                                   getVideoId(content.url))
    /\ UNCHANGED <<impl, script, fw, pc, total, popup, runs, engine, fac, fr, responses,
                   progress, updates, storage, reqLog, nextLog, rReqLog, served, repliesOf,
                   failedParents, nextId, failures>>

\* The calls before call k that still wait at their first await
WaitingBefore(calls, k) == {j \in 1..(k - 1) : calls[j].at = "idResp"}

\* safeSendMessage({ action: "videoIdDetected" }) resolves for one call,
\* with a response or with null: the call sends fetchComments and waits again.
IdResponse ==
    /\ pc = "content"
    /\ \E k \in 1..Len(content.calls) :
          /\ content.calls[k].at = "idResp"
          /\ content' = [content EXCEPT
                 !.sent = Append(@, Message("fetchComments", content.calls[k].videoId)),
                 !.calls[k].at = "fetchResp",
                 !.overtaken = @ \/ WaitingBefore(content.calls, k) # {}]
    /\ UNCHANGED <<impl, script, fw, pc, total, popup, runs, engine, fac, fr, responses,
                   progress, updates, storage, reqLog, nextLog, rReqLog, served, repliesOf,
                   failedParents, nextId, failures>>

\* A sequence without its k-th element
Without(seq, k) == SubSeq(seq, 1, k - 1) \o SubSeq(seq, k + 1, Len(seq))

\* What safeSendMessage({ action: "fetchComments" }) resolves with: the
\* run's response { success: true, ... } or { error }, or null when
\* chrome.runtime.lastError is set or sendMessage throws
FetchAnswers == {"success", "error", "null"}

\* A script that forgets the id seen last when the trigger is not answered
\* with a success.
ForgottenUnlessSuccess(lastVideoId, fetchResp) ==
    IF fetchResp = "success" THEN lastVideoId ELSE ""

\* if (fetchResp?.error) logError(...) else logInfo(...): either branch only
\* logs, and lastVideoId is what it was.
LoggedOutcome(lastVideoId, fetchResp) == lastVideoId

\* safeSendMessage({ action: "fetchComments" }) resolves for one call, with
\* the run's response or with null: the call logs the outcome and ends.
FetchResponse ==
    /\ pc = "content"
    /\ \E k \in 1..Len(content.calls) : \E fetchResp \in FetchAnswers :
          /\ content.calls[k].at = "fetchResp"
          /\ content' = [content EXCEPT
                 !.calls = Without(@, k),
                 !.lastVideoId = LoggedOutcome(@, fetchResp),
                 !.answered = [videoId |-> content.calls[k].videoId,
                               fetchResp |-> fetchResp]]
    /\ UNCHANGED <<impl, script, fw, pc, total, popup, runs, engine, fac, fr, responses,
                   progress, updates, storage, reqLog, nextLog, rReqLog, served, repliesOf,
                   failedParents, nextId, failures>>

ContentNext == UrlChange \/ UrlChangeDetected \/ IdResponse \/ FetchResponse

ContentSpec == ContentInit /\ [][ContentNext]_vars

(***************************************************************************)
(* Claims about the content script                                         *)
(***************************************************************************)
\* The video ids of the fetchComments triggers sent, in the order sent
IsTrigger(m) == m.action = "fetchComments"
Triggers == SelectSeq(content.sent, IsTrigger)

\* C28: for any sequence of page-load detections and URL changes, also ones
\* that arrive while an earlier notifyBackground call awaits a response, the
\* content script never sends a fetchComments trigger whose video id equals
\* the id of the trigger it sent immediately before.
C28_NoRepeatedTrigger ==
    pc = "content" =>
        \A i \in 1..(Len(Triggers) - 1) : Triggers[i] # Triggers[i + 1]

\* The same while every call is resumed before the calls made after it
ResumedInOrderNoRepeatedTrigger == ~content.overtaken => C28_NoRepeatedTrigger

\* A detection of the id seen last was suppressed while a call was waiting.
SuppressedWhileWaiting ==
    /\ pc = "content"
    /\ content.url = "/embed/X"
    /\ content.lastUrl = "/embed/X"
    /\ content.lastVideoId = "X"
    /\ content.calls = <<Call("X", "idResp")>>
    /\ content.changes = 1

\* The video ids of the videoIdDetected messages sent: the detections that
\* passed the comparison with lastVideoId, in order
IsDetection(m) == m.action = "videoIdDetected"
Detections == SelectSeq(content.sent, IsDetection)

\* How many of the messages msgs name video v
NamingVideo(msgs, v) == Cardinality({i \in 1..Len(msgs) : msgs[i].videoId = v})

\* C38: after the background answers a content-script trigger with an error
\* (or with no response at all), the content script's last-seen id stays set
\* to that video id, so it sends no further trigger for the same video until
\* a different video id has been detected in between: the answer changes
\* neither lastVideoId nor what was sent, every trigger belongs to a
\* detection of its own that passed the comparison, and between two such
\* detections of one video lies one of another video.
C38_NoRetryAfterError ==
    /\ [][FetchResponse =>
             /\ content'.lastVideoId = content.lastVideoId
             /\ content'.sent = content.sent]_vars
    /\ [](pc = "content" =>
             /\ \A i \in 1..(Len(Detections) - 1) :
                   Detections[i].videoId # Detections[i + 1].videoId
             /\ \A v \in {"X", "Y"} : NamingVideo(Triggers, v) <= NamingVideo(Detections, v))

\* The trigger for X was answered with an error, the page then changed to
\* another URL of the same video, and no second trigger was sent.
C38_Witness ==
    /\ pc = "content"
    /\ content.answered = [videoId |-> "X", fetchResp |-> "error"]
    /\ content.lastVideoId = "X"
    /\ content.url = "/embed/X"
    /\ content.lastUrl = "/embed/X"
    /\ content.calls = <<>>
    /\ Len(Triggers) = 1
    /\ content.changes = 1

(***************************************************************************)
(* Overlapping fetchComments runs: every call of the listener has its own  *)
(* frame (videoId, comments, pageToken, sendResponse); the runs share      *)
(* chrome.storage.local and the channel of the updateUI messages.  Each    *)
(* fetchWithRetry call is taken as one step that returns a page or throws. *)
(***************************************************************************)
\* commentThreads pages and records the source serves to one run
MaxRunPages == 2
MaxRunRecords == 2

\* The videos the triggers name
RunVideoIds == {"X", "Y"}

\* The k-th comment of a video, and the video a comment belongs to
RecordOf(videoId, k) == IF videoId = "X" THEN k ELSE 100 + k
VideoOfRecord(id) == IF id > 100 THEN "Y" ELSE "X"

\* The frame of one listener call: where it is suspended, the locals of
\* fetchAllComments, the value returned by the /analyze call, the
\* progressUpdate messages it has sent and what it passed to its sendResponse;
\* served and pages count what the source has served to it.
Frame(videoId, at) ==
    [videoId |-> videoId, at |-> at, comments |-> <<>>, pageToken |-> "", data |-> <<>>,
     progress |-> <<>>, response |-> ErrorResponse(NoErr), served |-> 0, pages |-> 0]

\* The items the source serves for a commentThreads URL: the next n comments
\* of the video the URL names
SourceItems(url, before, n) == [k \in 1..n |-> PlainItem(RecordOf(url.videoId, before + k))]

RunsInit ==
    /\ impl = "background"
    /\ pc = "runs"
    /\ total = 0
    /\ script = <<>>
    /\ fw = IdleFetch
    /\ storage = Storage(TRUE, "K")
    /\ RunIdle

\* A fetchComments message with a video id arrives while at most one run for
\* another video is under way: the listener starts its async function, which
\* awaits storageGet("ytApiKey").
RunTriggered ==
    /\ pc = "runs"
    /\ Len(runs) < 2
    /\ \E v \in RunVideoIds :
          /\ \A r \in DOMAIN runs : runs[r].videoId # v
          /\ runs' = Append(runs, Frame(v, "storageGet"))
    /\ UNCHANGED <<impl, script, fw, pc, total, popup, content, engine, fac, fr, responses,
                   progress, updates, storage, reqLog, nextLog, rReqLog, served, repliesOf,
                   failedParents, nextId, failures>>

\* storageGet settles in one run; a rejection is read as null.
RunStorageGetDone ==
    /\ pc = "runs"
    /\ \E r \in DOMAIN runs : \E readOk \in BOOLEAN :
          /\ runs[r].at = "storageGet"
          /\ LET apiKey == IF readOk /\ storage.hasKey THEN storage.ytApiKey ELSE ""
             IN runs' = IF KeyMissing(apiKey)
                        THEN [runs EXCEPT ![r].at = "done",
                                 ![r].response =
                                     ErrorResponse(Err("YouTube API key not set.", "", NoCause))]
                        ELSE [runs EXCEPT ![r].at = "outerFetch"]
    /\ UNCHANGED <<impl, script, fw, pc, total, popup, content, engine, fac, fr, responses,
                   progress, updates, storage, reqLog, nextLog, rReqLog, served, repliesOf,
                   failedParents, nextId, failures>>

\* fetchWithRetry returns a page to one run, or throws: the items are pushed,
\* progressUpdate is sent and the run pauses; or the listener's catch answers
\* with the error.
RunOuterFetchDone ==
    /\ pc = "runs"
    /\ \E r \in DOMAIN runs :
          /\ runs[r].at = "outerFetch"
          /\ \/ runs' = [runs EXCEPT ![r].at = "done",
                            ![r].response = ErrorResponse(WalkError(runs[r].videoId,
                                Cause("RetryExhausted", DefaultRetries, NoReason)))]
             \/ \E n \in 0..Min(MaxItems, MaxRunRecords - runs[r].served) :
                \E next \in IF runs[r].pages + 1 < MaxRunPages THEN Cursors ELSE {""} :
                   LET url == OuterUrl(runs[r].videoId, runs[r].pageToken)
                       walked == ProcessItems(SourceItems(url, runs[r].served, n), 1,
                                              runs[r].comments)
                   IN runs' = [runs EXCEPT ![r].at = "throttle",
                                  ![r].comments = walked.comments,
                                  ![r].pageToken = next,
                                  ![r].progress = Append(@, Progress(Len(walked.comments))),
                                  ![r].served = @ + n,
                                  ![r].pages = @ + 1]
    /\ UNCHANGED <<impl, script, fw, pc, total, popup, content, engine, fac, fr, responses,
                   progress, updates, storage, reqLog, nextLog, rReqLog, served, repliesOf,
                   failedParents, nextId, failures>>

\* The 200 ms pause of one run ends: while (pageToken), then sendAllComments.
RunThrottleDone ==
    /\ pc = "runs"
    /\ \E r \in DOMAIN runs :
          /\ runs[r].at = "throttle"
          /\ runs' = [runs EXCEPT ![r].at = IF runs[r].pageToken # "" THEN "outerFetch"
                                            ELSE "analyze"]
    /\ UNCHANGED <<impl, script, fw, pc, total, popup, content, engine, fac, fr, responses,
                   progress, updates, storage, reqLog, nextLog, rReqLog, served, repliesOf,
                   failedParents, nextId, failures>>

\* The POST to /analyze of one run settles.
RunAnalyzeDone ==
    /\ pc = "runs"
    /\ \E r \in DOMAIN runs : \E outcome \in AnalysisOutcomes :
          /\ runs[r].at = "analyze"
          /\ IF outcome = "ok"
             THEN /\ runs' = [runs EXCEPT ![r].at = "storageSet", ![r].data = runs[r].comments]
                  /\ updates' = updates
             ELSE /\ runs' = [runs EXCEPT ![r].at = "done",
                                 ![r].response = SuccessResponse(Len(runs[r].comments))]
                  /\ updates' = Append(updates, UpdateError(outcome))
    /\ UNCHANGED <<impl, script, fw, pc, total, popup, content, engine, fac, fr, responses,
                   progress, storage, reqLog, nextLog, rReqLog, served, repliesOf,
                   failedParents, nextId, failures>>

\* storageSet of one run settles: updateUI is sent and the listener answers.
RunStorageSetDone ==
    /\ pc = "runs"
    /\ \E r \in DOMAIN runs : \E writeOk \in BOOLEAN :
          /\ runs[r].at = "storageSet"
          /\ storage' = IF writeOk
                        THEN [storage EXCEPT !.analysisResults = runs[r].data, !.saved = TRUE]
                        ELSE storage
          /\ updates' = Append(updates, UpdateResults(runs[r].data))
          /\ runs' = [runs EXCEPT ![r].at = "done",
                         ![r].response = SuccessResponse(Len(runs[r].comments))]
    /\ UNCHANGED <<impl, script, fw, pc, total, popup, content, engine, fac, fr, responses,
                   progress, reqLog, nextLog, rReqLog, served, repliesOf, failedParents,
                   nextId, failures>>

RunsNext ==
    \/ RunTriggered
    \/ RunStorageGetDone
    \/ RunOuterFetchDone
    \/ RunThrottleDone
    \/ RunAnalyzeDone
    \/ RunStorageSetDone

RunsSpec == RunsInit /\ [][RunsNext]_vars

(***************************************************************************)
(* Claims about overlapping runs                                           *)
(***************************************************************************)
\* The comments the source has served to a run, in the order served
ServedTo(run) == [k \in 1..run.served |-> RecordOf(run.videoId, k)]

\* C27: two fetchComments runs for different video ids whose steps interleave
\* do not interfere: each run's record list holds only the records fetched
\* for its own video id, its progress counts count only its own records, and
\* each trigger receives its own response with its own totalComments.
C27_RunsDoNotInterfere ==
    pc = "runs" =>
        \A r \in DOMAIN runs :
            LET run == runs[r]
            IN /\ \A i \in 1..Len(run.comments) : VideoOfRecord(run.comments[i]) = run.videoId
               /\ run.comments = ServedTo(run)
               /\ \A i \in 1..Len(run.progress) :
                     /\ run.progress[i].processedComments <= Len(run.comments)
                     /\ i > 1 => run.progress[i - 1].processedComments
                                    <= run.progress[i].processedComments
               /\ run.at = "throttle" =>
                     Last(run.progress).processedComments = Len(run.comments)
               /\ (run.at = "done" /\ run.response.success) =>
                     run.response.totalComments = Len(ServedTo(run))
               /\ (run.at = "done" /\ ~run.response.success) =>
                     run.response.error.videoId \in {"", run.videoId}

\* Both runs have finished with different totals, the run triggered first
\* after a walk of two pages and after the run triggered second.
C27_Witness ==
    /\ pc = "runs"
    /\ Len(runs) = 2
    /\ runs[1].at = "done" /\ runs[2].at = "done"
    /\ runs[1].response = SuccessResponse(1)
    /\ runs[2].response = SuccessResponse(2)
    /\ runs[1].pages = 2
    /\ Len(updates) = 2
    /\ updates[1] = UpdateResults(runs[2].data)
    /\ updates[2] = UpdateResults(runs[1].data)

\* C36: when several runs overlap, the analysisResults left in storage after
\* all of them finish are those of the run most recently triggered: the
\* results of an earlier-triggered run never overwrite those of a
\* later-triggered run.
C36_LatestTriggerWins ==
    [][(/\ pc = "runs"
        /\ Len(runs) = 2
        /\ runs[2].data # <<>>
        /\ storage.saved
        /\ storage.analysisResults = runs[2].data)
       => storage'.analysisResults = runs[2].data]_vars

====
